---- MODULE Spec2Model ----
(***************************************************************************)
(* Trade lifecycle engine of scrapetech: the position ledger (db.py), the  *)
(* pending-intent table (db.py), the receipt reconciler (auto_trader.py)   *)
(* and the standalone reconcile sweep (cli.py).                            *)
(*                                                                         *)
(* Units.  Token amounts are counted in units of 1e-9 token, so that       *)
(* apply_trade's epsilon (1e-9) is exactly one unit.  SOL amounts are      *)
(* counted in lamports (1e-9 SOL), so abs(sol_delta) / 1_000_000_000 is    *)
(* the magnitude of the lamport delta.  Quotients (avg_entry_sol,          *)
(* realized_pnl_sol, price) are exact fractions <<n, d>> in lowest terms;  *)
(* floating-point rounding is not modelled.                                *)
(***************************************************************************)
EXTENDS Integers, Sequences, FiniteSets, TLC

VARIABLES
    positions,       \* table positions: (user, mint) -> row, DOMAIN = existing rows
    trades,          \* table trades: append-only sequence of rows
    pending_trades,  \* table pending_trades: signature -> row, DOMAIN = existing rows
    chain,           \* external ledger: signature -> what the cluster knows of it
    onchain_bal,     \* external ledger: token balance of the owner's token account
    wk,              \* per signature: the caller that submitted it and drives confirm_trade
    sw,              \* the standalone `reconcile` process (cli.py)
    led,             \* the direct ledger caller (cli `pos apply`, bot positions view)
    ap,              \* two concurrent apply_trade callers
    mon              \* the position monitor (cli.py `monitor`)

vars == <<positions, trades, pending_trades, chain, onchain_bal, wk, sw, led, ap, mon>>

----------------------------------------------------------------------------
(* Bounds of the model *)

\* largest token amount of one trade / one receipt delta
MaxTok == 3
\* largest SOL amount (lamports) of one trade / one receipt delta
MaxSol == 2
\* number of ledger operations of the direct ledger caller
MaxLedgerOps == 3

Users == {"u1"}
Mints == {"m1"}
Pairs == Users \X Mints
Sides == {"BUY", "SELL"}

----------------------------------------------------------------------------
(* Exact fractions: Python float division and multiplication *)

RECURSIVE GCD(_, _)
GCD(a, b) == IF b = 0 THEN a ELSE GCD(b, a % b)

Abs(x) == IF x < 0 THEN -x ELSE x

\* a / b for b > 0, in lowest terms
Frac(a, b) == LET g == GCD(Abs(a), b) IN <<a \div g, b \div g>>

Zero == <<0, 1>>
FromInt(n) == <<n, 1>>
RAdd(x, y) == Frac(x[1] * y[2] + y[1] * x[2], x[2] * y[2])
RSub(x, y) == Frac(x[1] * y[2] - y[1] * x[2], x[2] * y[2])
RMulInt(n, x) == Frac(n * x[1], x[2])
RLeq(x, y) == x[1] * y[2] <= y[1] * x[2]

----------------------------------------------------------------------------
(* Position ledger: db.apply_trade *)

\* db.py:429
epsilon == 1

\* db.py:450-454: the fields apply_trade reads, defaults when there is no row
RowOrDefault(tbl, k) ==
    IF k \in DOMAIN tbl THEN tbl[k]
    ELSE [token_balance |-> 0, avg_entry_sol |-> Zero, total_sol_spent |-> 0,
          total_sol_received |-> 0, realized_pnl_sol |-> Zero, open |-> 1]

\* db.py:456-462 with the mean of the old average and the trade's price as
\* the new average (a plausible slip in the cost-basis formula)
BuyRowMeanOfPrices(row, token_amount, sol_amount) ==
    [token_balance      |-> row.token_balance + token_amount,
     avg_entry_sol      |-> IF row.token_balance = 0
                            THEN Frac(sol_amount, token_amount)
                            ELSE Frac(row.avg_entry_sol[1] * token_amount
                                        + sol_amount * row.avg_entry_sol[2],
                                      2 * row.avg_entry_sol[2] * token_amount),
     total_sol_spent    |-> row.total_sol_spent + sol_amount,
     total_sol_received |-> row.total_sol_received,
     realized_pnl_sol   |-> row.realized_pnl_sol,
     open               |-> 1]

\* db.py:456-462 with the cost of the buy booked against the realized P&L
\* (a plausible slip: cash-flow P&L instead of realized P&L)
BuyRowBooksCost(row, token_amount, sol_amount) ==
    LET new_balance     == row.token_balance + token_amount
        new_total_spent == row.total_sol_spent + sol_amount
    IN [token_balance      |-> new_balance,
        avg_entry_sol      |-> IF new_balance > 0
                               THEN Frac(new_total_spent, new_balance) ELSE Zero,
        total_sol_spent    |-> new_total_spent,
        total_sol_received |-> row.total_sol_received,
        realized_pnl_sol   |-> RSub(row.realized_pnl_sol, FromInt(sol_amount)),
        open               |-> 1]

\* db.py:456-462: the BUY branch
BuyRow(row, token_amount, sol_amount) ==
    LET new_balance     == row.token_balance + token_amount
        new_total_spent == row.total_sol_spent + sol_amount
    IN [token_balance      |-> new_balance,
        avg_entry_sol      |-> IF new_balance > 0
                               THEN Frac(new_total_spent, new_balance) ELSE Zero,
        total_sol_spent    |-> new_total_spent,
        total_sol_received |-> row.total_sol_received,
        realized_pnl_sol   |-> row.realized_pnl_sol,
        open               |-> 1]

\* db.py:469-480 with the average recomputed from the total spent on a
\* partial sell (a plausible slip: the BUY formula reused)
SellRowRecomputesAverage(row, token_amount, sol_amount) ==
    LET pnl         == RSub(FromInt(sol_amount), RMulInt(token_amount, row.avg_entry_sol))
        new_balance == row.token_balance - token_amount
        closes      == new_balance <= epsilon
    IN [token_balance      |-> IF closes THEN 0 ELSE new_balance,
        avg_entry_sol      |-> IF closes THEN Zero
                               ELSE Frac(row.total_sol_spent, new_balance),
        total_sol_spent    |-> row.total_sol_spent,
        total_sol_received |-> row.total_sol_received + sol_amount,
        realized_pnl_sol   |-> RAdd(row.realized_pnl_sol, pnl),
        open               |-> IF closes THEN 0 ELSE 1]

\* db.py:469-480 with the position closed only at a balance of exactly 0 (a
\* plausible slip: epsilon dropped from the comparison)
SellRowSnapsOnlyAtZero(row, token_amount, sol_amount) ==
    LET pnl         == RSub(FromInt(sol_amount), RMulInt(token_amount, row.avg_entry_sol))
        new_balance == row.token_balance - token_amount
        closes      == new_balance <= 0
    IN [token_balance      |-> IF closes THEN 0 ELSE new_balance,
        avg_entry_sol      |-> IF closes THEN Zero ELSE row.avg_entry_sol,
        total_sol_spent    |-> row.total_sol_spent,
        total_sol_received |-> row.total_sol_received + sol_amount,
        realized_pnl_sol   |-> RAdd(row.realized_pnl_sol, pnl),
        open               |-> IF closes THEN 0 ELSE 1]

\* db.py:469-480: the SELL branch after its two guards
SellRow(row, token_amount, sol_amount) ==
    LET pnl         == RSub(FromInt(sol_amount), RMulInt(token_amount, row.avg_entry_sol))
        new_balance == row.token_balance - token_amount
        closes      == new_balance <= epsilon
    IN [token_balance      |-> IF closes THEN 0 ELSE new_balance,
        avg_entry_sol      |-> IF closes THEN Zero ELSE row.avg_entry_sol,
        total_sol_spent    |-> row.total_sol_spent,
        total_sol_received |-> row.total_sol_received + sol_amount,
        realized_pnl_sol   |-> RAdd(row.realized_pnl_sol, pnl),
        open               |-> IF closes THEN 0 ELSE 1]

\* db.py:429-480 with an oversized sell clamped to the balance instead of
\* rejected (a plausible slip: min(token_amount, token_balance))
ComputeTradeClamps(row, side, token_amount, sol_amount) ==
    IF token_amount <= 0 \/ sol_amount <= 0
    THEN [err |-> "token_amount and sol_amount must be positive"]
    ELSE IF side \notin Sides
    THEN [err |-> "side must be BUY or SELL"]
    ELSE IF side = "BUY"
    THEN [err |-> "", row |-> BuyRow(row, token_amount, sol_amount)]
    ELSE IF row.token_balance <= 0
    THEN [err |-> "No open position to sell"]
    ELSE IF token_amount > row.token_balance
    THEN [err |-> "", row |-> SellRow(row, row.token_balance, sol_amount)]
    ELSE [err |-> "", row |-> SellRow(row, token_amount, sol_amount)]

\* db.py:429-480 with the check of side dropped (a plausible slip: any side
\* that is not BUY takes the else branch and is handled as a SELL)
ComputeTradeNoSideCheck(row, side, token_amount, sol_amount) ==
    IF token_amount <= 0 \/ sol_amount <= 0
    THEN [err |-> "token_amount and sol_amount must be positive"]
    ELSE IF side = "BUY"
    THEN [err |-> "", row |-> BuyRow(row, token_amount, sol_amount)]
    ELSE IF row.token_balance <= 0
    THEN [err |-> "No open position to sell"]
    ELSE IF token_amount > row.token_balance
    THEN [err |-> "Cannot sell more than current token balance"]
    ELSE [err |-> "", row |-> SellRow(row, token_amount, sol_amount)]

\* db.py:429-480: what apply_trade decides from the row it SELECTed:
\* an error raised before any write, or the new field values
ComputeTrade(row, side, token_amount, sol_amount) ==
    IF token_amount <= 0 \/ sol_amount <= 0
    THEN [err |-> "token_amount and sol_amount must be positive"]
    ELSE IF side \notin Sides
    THEN [err |-> "side must be BUY or SELL"]
    ELSE IF side = "BUY"
    THEN [err |-> "", row |-> BuyRow(row, token_amount, sol_amount)]
    ELSE IF row.token_balance <= 0
    THEN [err |-> "No open position to sell"]
    ELSE IF token_amount > row.token_balance
    THEN [err |-> "Cannot sell more than current token balance"]
    ELSE [err |-> "", row |-> SellRow(row, token_amount, sol_amount)]

\* db.py:482-489: the row INSERTed INTO trades
TradeRow(k, side, token_amount, sol_amount, tx_sig) ==
    [user |-> k[1], mint |-> k[2], side |-> side, token_amount |-> token_amount,
     sol_amount |-> sol_amount,
     price_sol_per_token |-> Frac(sol_amount, token_amount), tx_sig |-> tx_sig]

\* db.py:440-521 and connect (db.py:14-22): the effect of apply_trade's
\* write transaction on the tables (pos, log), given the snapshot its SELECT
\* returned earlier (snap_exists, snap).  The SELECT runs in autocommit; the
\* implicit transaction opens at the first INSERT.  INSERT INTO trades, then
\* UPDATE when the snapshot had a row, else INSERT INTO positions, which
\* violates UNIQUE(user_id, mint) when a row has appeared since: the
\* exception skips conn.commit(), so the trades INSERT is rolled back too.
WriteTradeOn(pos, log, snap_exists, snap, k, side, token_amount, sol_amount, tx_sig) ==
    LET c == ComputeTrade(snap, side, token_amount, sol_amount)
    IN IF c.err # ""
       THEN [err |-> c.err, positions |-> pos, trades |-> log]
       ELSE IF ~snap_exists /\ k \in DOMAIN pos
       THEN [err |-> "UNIQUE constraint failed: positions.user_id, positions.mint",
             positions |-> pos, trades |-> log]
       ELSE [err |-> "",
             positions |-> [x \in DOMAIN pos \cup {k} |-> IF x = k THEN c.row ELSE pos[x]],
             trades |-> Append(log, TradeRow(k, side, token_amount, sol_amount, tx_sig))]

\* db.py:420-521: apply_trade run without interruption on the tables (pos, log)
ApplyTradeOn(pos, log, k, side, token_amount, sol_amount, tx_sig) ==
    WriteTradeOn(pos, log, k \in DOMAIN pos, RowOrDefault(pos, k),
                 k, side, token_amount, sol_amount, tx_sig)

\* db.py:420-521: apply_trade run without interruption on the database
ApplyTrade(k, side, token_amount, sol_amount, tx_sig) ==
    ApplyTradeOn(positions, trades, k, side, token_amount, sol_amount, tx_sig)

\* db.reconcile_position_balance (imported by auto_trader.py:14, bot.py:14,
\* telethon_listener.py:17; its body is not in db.py): sets token_balance of
\* an existing row to the on-chain value and touches nothing else
ReconcileBalance(k, onchain_balance) ==
    IF k \in DOMAIN positions
    THEN [positions EXCEPT ![k].token_balance = onchain_balance]
    ELSE positions

----------------------------------------------------------------------------
(* Pending-intent table: db.enqueue_pending_trade and friends *)

\* an absent value (SQL NULL, Python None) is <<>>, a present value v is <<v>>
None == <<>>
Some(v) == <<v>>
\* Python truthiness of an optional number: None and 0 are falsy
Truthy(o) == o # None /\ o[1] # 0

\* db.py:523-551 as INSERT OR REPLACE (a plausible slip: the conflicting row
\* is deleted and a fresh PENDING row inserted under a new id)
EnqueueReplaces(tbl, k, side, signature, requested_token_amount, requested_sol_amount) ==
    [x \in DOMAIN tbl \cup {signature} |->
        IF x # signature THEN tbl[x]
        ELSE [id |-> Cardinality(DOMAIN tbl) + 1, user |-> k[1], mint |-> k[2],
              side |-> side,
              requested_token_amount |-> requested_token_amount,
              requested_sol_amount |-> requested_sol_amount,
              actual_token_amount |-> None, actual_sol_amount |-> None,
              status |-> "PENDING", error |-> ""]]

\* db.py:523-551: INSERT ... ON CONFLICT(signature) DO UPDATE SET the two
\* requested amounts; status and actual amounts of an existing row stay
EnqueuePendingTrade(tbl, k, side, signature, requested_token_amount, requested_sol_amount) ==
    [x \in DOMAIN tbl \cup {signature} |->
        IF x # signature THEN tbl[x]
        ELSE IF signature \in DOMAIN tbl
        THEN [tbl[x] EXCEPT !.requested_token_amount = requested_token_amount,
                            !.requested_sol_amount = requested_sol_amount]
        ELSE [id |-> Cardinality(DOMAIN tbl) + 1, user |-> k[1], mint |-> k[2],
              side |-> side,
              requested_token_amount |-> requested_token_amount,
              requested_sol_amount |-> requested_sol_amount,
              actual_token_amount |-> None, actual_sol_amount |-> None,
              status |-> "PENDING", error |-> ""]]

\* db.py:553-574: UPDATE pending_trades SET status, error, actual amounts
\* WHERE signature=?; unconditional, last write wins
UpdatePendingTradeStatus(tbl, signature, status, error, actual_token_amount, actual_sol_amount) ==
    IF signature \in DOMAIN tbl
    THEN [tbl EXCEPT ![signature].status = status,
                     ![signature].error = error,
                     ![signature].actual_token_amount = actual_token_amount,
                     ![signature].actual_sol_amount = actual_sol_amount]
    ELSE tbl

\* the signatures of S by ascending row id
RECURSIVE ByCreation(_, _)
ByCreation(tbl, S) ==
    IF S = {} THEN <<>>
    ELSE LET first == CHOOSE x \in S : \A y \in S : tbl[x].id <= tbl[y].id
         IN <<first>> \o ByCreation(tbl, S \ {first})

\* db.py:576-598: list_pending_trades(status, limit): oldest first, at most
\* limit rows, all statuses when status is None ("ALL")
ListPendingTrades(tbl, status, limit) ==
    LET all == ByCreation(tbl, {x \in DOMAIN tbl : status = "ALL" \/ tbl[x].status = status})
    IN SubSeq(all, 1, IF Len(all) < limit THEN Len(all) ELSE limit)

----------------------------------------------------------------------------
(* The external ledger and its RPC endpoints *)

Sigs == {"s1"}

\* largest token amount a transaction moves on chain
MaxFill == 2
\* largest lamport amount a transaction moves on chain
MaxCost == 2

\* the error an on-chain failure carries (spec section 8)
ProgramError == "custom program error: 0x1775"

\* solana_rpc.py:396-451: extract_tx_deltas on a receipt.  The owner signs
\* and pays, so it is always among the account keys; the token delta is
\* None when no token-balance entry of the owner and mint is listed.
ExtractTxDeltas(tx) ==
    [sol_delta_lamports |-> Some(tx.post_sol - tx.pre_sol),
     token_delta_ui |-> IF tx.tok_listed THEN Some(tx.post_tok - tx.pre_tok) ELSE None]

\* solana_rpc.py:214-232: what getTransaction may answer for a signature: an
\* HTTP error, null (unknown to the node asked, or not yet served), or the
\* receipt once the cluster serves it
TxResponses(sig) ==
    {"raise", "none"} \cup (IF chain[sig].st = "receipt" THEN {"receipt"} ELSE {})

\* solana_rpc.py:234-247: what getSignatureStatuses may answer: an HTTP
\* error, null, or the status once the transaction has landed
StatusResponses(sig) ==
    {"raise", "none"} \cup (IF chain[sig].st \in {"landed", "receipt"} THEN {"status"} ELSE {})

\* solana_rpc.py:378-394: rpc_get_token_balance_for_owner_mint_any swallows
\* RPC errors and answers None or the balance
BalanceResponses == {None, Some(onchain_bal)}

\* the cluster processes a submitted transaction: it fails with a program
\* error, or it moves t tokens and s lamports
ChainLand(sig, ok, t, s, tok_listed) ==
    /\ sig \in DOMAIN chain
    /\ chain[sig].st = "sent"
    /\ LET side == chain[sig].side
           tok == IF side = "SELL" THEN chain[sig].sell_tokens ELSE t
       IN IF ~ok
          THEN /\ chain' = [chain EXCEPT ![sig].st = "landed", ![sig].err = ProgramError]
               /\ UNCHANGED onchain_bal
          ELSE /\ side = "SELL" => onchain_bal >= tok
               /\ onchain_bal' = IF side = "BUY" THEN onchain_bal + tok ELSE onchain_bal - tok
               /\ chain' = [chain EXCEPT
                               ![sig].st = "landed",
                               ![sig].tok_listed = tok_listed,
                               ![sig].pre_sol = IF side = "BUY" THEN s ELSE 0,
                               ![sig].post_sol = IF side = "BUY" THEN 0 ELSE s,
                               ![sig].pre_tok = onchain_bal,
                               ![sig].post_tok = onchain_bal']
    /\ UNCHANGED <<positions, trades, pending_trades, wk, sw, led, ap, mon>>

\* the receipt of a landed transaction becomes available from getTransaction
ChainServe(sig) ==
    /\ sig \in DOMAIN chain
    /\ chain[sig].st = "landed"
    /\ chain' = [chain EXCEPT ![sig].st = "receipt"]
    /\ UNCHANGED <<positions, trades, pending_trades, onchain_bal, wk, sw, led, ap, mon>>

----------------------------------------------------------------------------
(* Trade executor: submission (auto_trader.submit_*_for_user) *)

\* confirm_trade calls one caller makes before it gives up (8 in
\* bot._confirm_and_notify, 20 in the bridge)
MaxCalls == 2
\* polling attempts of one confirm_trade call from the bot (3 there)
MaxRetries == 2
\* telethon_listener.py:311: the bridge passes retries=1
BridgeRetries == 1

Kinds == {"bot", "bridge"}
Retries(kind) == IF kind = "bridge" THEN BridgeRetries ELSE MaxRetries
\* auto_trader.py:202, 265: auto_buy_for_user and auto_sell_for_position
\* (kind "auto") call confirm_trade once; the other callers loop
Calls(kind) == IF kind = "auto" THEN 1 ELSE MaxCalls

SigOrder == <<"s1">>
\* transaction ids are fresh: the next unused one
NextSig == SigOrder[Cardinality(DOMAIN chain) + 1]

DefaultRow == RowOrDefault(<<>>, <<"u1", "m1">>)

\* the trade of a signature is on the ledger and its intent is SUCCESS
Settled(sig) ==
    /\ sig \in DOMAIN pending_trades
    /\ pending_trades[sig].status = "SUCCESS"
    /\ \E i \in 1..Len(trades) : trades[i].tx_sig = sig

\* the caller's registers when it enters confirm_trade; settled records
\* whether the signature was already settled when this call began
FreshCall(me) ==
    [me EXCEPT !.pc = "poll", !.attempt = 0, !.confirmed_seen = FALSE, !.path = "",
               !.sol_delta = 0, !.tok = 0, !.sol = 0, !.bal = None,
               !.snap_exists = FALSE, !.snap = DefaultRow,
               !.settled = Settled(me.sig)]

\* w is how the latest wait ended: the answer of getTransaction in its last
\* attempt, confirmed_seen, and the number of attempts made
NoWait == [tx |-> "", seen |-> FALSE, attempts |-> 0]

\* how a call of auto_buy_for_user or auto_sell_for_position ended: not yet
NoOutcome == [type |-> "", sig |-> "", err |-> ""]

NewWorker(sig, kind, k, side) ==
    [sig |-> sig, kind |-> kind, k |-> k, side |-> side, pc |-> "poll", calls |-> 0,
     attempt |-> 0, confirmed_seen |-> FALSE, path |-> "", sol_delta |-> 0,
     tok |-> 0, sol |-> 0, bal |-> None, snap_exists |-> FALSE,
     snap |-> DefaultRow, settled |-> FALSE, w |-> NoWait,
     res |-> "", res_error |-> "", note |-> "", exc |-> NoOutcome]

NewTx(side, sell_tokens) ==
    [st |-> "sent", side |-> side, sell_tokens |-> sell_tokens, err |-> "",
     tok_listed |-> FALSE, pre_sol |-> 0, post_sol |-> 0, pre_tok |-> 0, post_tok |-> 0]

Extend(f, x, v) == [y \in DOMAIN f \cup {x} |-> IF y = x THEN v ELSE f[y]]

\* auto_trader.py:90-108: send_buy_tx, then the decimals lookup (req_tokens
\* is None when it fails), then enqueue_pending_trade; the caller (bot.py:560,
\* telethon_listener.py:291) goes on to confirm the signature
SubmitBuy(kind, k, sol_in, req_tokens) ==
    /\ Cardinality(DOMAIN chain) < Len(SigOrder)
    /\ chain' = Extend(chain, NextSig, NewTx("BUY", 0))
    /\ pending_trades' = EnqueuePendingTrade(pending_trades, k, "BUY", NextSig,
                                             req_tokens, Some(sol_in))
    /\ wk' = Extend(wk, NextSig, NewWorker(NextSig, kind, k, "BUY"))
    /\ UNCHANGED <<positions, trades, onchain_bal, sw, led, ap, mon>>

\* auto_trader.py:243-260: send_sell_tx, then enqueue_pending_trade with the
\* requested tokens and 0.0 SOL; the caller (bot.py:598) goes on to confirm
SubmitSell(kind, k, tokens_ui) ==
    /\ Cardinality(DOMAIN chain) < Len(SigOrder)
    /\ chain' = Extend(chain, NextSig, NewTx("SELL", tokens_ui))
    /\ pending_trades' = EnqueuePendingTrade(pending_trades, k, "SELL", NextSig,
                                             Some(tokens_ui), Some(0))
    /\ wk' = Extend(wk, NextSig, NewWorker(NextSig, kind, k, "SELL"))
    /\ UNCHANGED <<positions, trades, onchain_bal, sw, led, ap, mon>>

----------------------------------------------------------------------------
(* Receipt reconciler: auto_trader._wait_for_receipt and confirm_trade *)

NotFound == "Transaction not found on-chain"

\* auto_trader.py:50-70 with the receipt's error ignored (a plausible slip:
\* the check of meta.err dropped)
WaitAttemptNoErrCheck(sig, tx_resp, st_resp, confirmed_seen) ==
    IF tx_resp = "raise"
    THEN [ret |-> FALSE, confirmed_seen |-> confirmed_seen]
    ELSE IF tx_resp = "none"
    THEN IF st_resp = "raise"
         THEN [ret |-> FALSE, confirmed_seen |-> confirmed_seen]
         ELSE IF st_resp = "status" /\ chain[sig].err # ""
         THEN [ret |-> TRUE, sol |-> None, tok |-> None, err |-> chain[sig].err]
         ELSE [ret |-> FALSE,
               confirmed_seen |-> confirmed_seen \/ st_resp = "status"]
    ELSE IF chain[sig].err # ""
    THEN [ret |-> FALSE, confirmed_seen |-> confirmed_seen]
    ELSE LET deltas == ExtractTxDeltas(chain[sig])
         IN IF deltas.sol_delta_lamports # None /\ deltas.token_delta_ui # None
            THEN [ret |-> TRUE, sol |-> deltas.sol_delta_lamports,
                  tok |-> deltas.token_delta_ui, err |-> ""]
            ELSE [ret |-> TRUE, sol |-> deltas.sol_delta_lamports, tok |-> None,
                  err |-> "MISSING_DELTAS"]

\* auto_trader.py:50-70: one iteration of the polling loop, given the
\* answers of getTransaction and (asked only when there is no receipt)
\* getSignatureStatuses.  It returns (sol, tok, err), or goes on to the
\* next iteration; an exception of either RPC call is swallowed.
WaitAttempt(sig, tx_resp, st_resp, confirmed_seen) ==
    IF tx_resp = "raise"
    THEN [ret |-> FALSE, confirmed_seen |-> confirmed_seen]
    ELSE IF tx_resp = "none"
    THEN IF st_resp = "raise"
         THEN [ret |-> FALSE, confirmed_seen |-> confirmed_seen]
         ELSE IF st_resp = "status" /\ chain[sig].err # ""
         THEN [ret |-> TRUE, sol |-> None, tok |-> None, err |-> chain[sig].err]
         ELSE [ret |-> FALSE,
               confirmed_seen |-> confirmed_seen \/ st_resp = "status"]
    ELSE IF chain[sig].err # ""
    THEN [ret |-> TRUE, sol |-> None, tok |-> None, err |-> chain[sig].err]
    ELSE LET deltas == ExtractTxDeltas(chain[sig])
         IN IF deltas.sol_delta_lamports # None /\ deltas.token_delta_ui # None
            THEN [ret |-> TRUE, sol |-> deltas.sol_delta_lamports,
                  tok |-> deltas.token_delta_ui, err |-> ""]
            ELSE [ret |-> TRUE, sol |-> deltas.sol_delta_lamports, tok |-> None,
                  err |-> "MISSING_DELTAS"]

\* auto_trader.py:71-73 with the confirmed_seen test dropped
WaitExhaustedNoSeen(confirmed_seen) ==
    [ret |-> TRUE, sol |-> None, tok |-> None, err |-> NotFound]

\* auto_trader.py:71-73: the loop ran out of attempts
WaitExhausted(confirmed_seen) ==
    [ret |-> TRUE, sol |-> None, tok |-> None,
     err |-> IF confirmed_seen THEN "RECEIPT_PENDING" ELSE NotFound]

\* bot.py:309-344, telethon_listener.py:310-321: confirm_trade returned
\* status to its caller's loop, which calls again while the status is
\* PENDING and calls remain; the bridge then falls back to the balance check
CallReturn(me, status, error, note) ==
    LET n == me.calls + 1
        r == [me EXCEPT !.calls = n, !.res = status, !.res_error = error, !.note = note]
    IN IF status = "PENDING" /\ n < Calls(me.kind) THEN FreshCall(r)
       ELSE IF status = "PENDING" /\ me.kind = "bridge"
       THEN [FreshCall(r) EXCEPT !.pc = "fb_bal", !.path = "fallback"]
       ELSE [FreshCall(r) EXCEPT !.pc = "done"]

\* auto_trader.py:164-166, 187-194, telethon_listener.py:365-366: an
\* exception inside the try block around apply_trade is swallowed; the
\* direct path still returns SUCCESS, the missing-deltas path returns
\* PENDING, the bridge fallback ends
AfterApplyError(me) ==
    IF me.path = "direct" THEN CallReturn(me, "SUCCESS", "", "")
    ELSE IF me.path = "missing" THEN CallReturn(me, "PENDING", "Missing token deltas", "MISSING_DELTAS")
    ELSE [FreshCall(me) EXCEPT !.pc = "done"]

\* auto_trader.py:45-73 and 124-174: one polling attempt of confirm_trade
\* and, when the wait ends, confirm_trade's dispatch on its result
WkPoll(sig, tx_resp, st_resp) ==
    /\ sig \in DOMAIN wk
    /\ wk[sig].pc = "poll"
    /\ tx_resp \in TxResponses(sig)
    /\ st_resp \in StatusResponses(sig)
    /\ tx_resp # "none" => st_resp = "none"
    /\ LET me == wk[sig]
           a  == WaitAttempt(sig, tx_resp, st_resp, me.confirmed_seen)
           w  == IF a.ret THEN a
                 ELSE IF me.attempt + 1 < Retries(me.kind) THEN a
                 ELSE WaitExhausted(a.confirmed_seen)
           how == [tx |-> tx_resp,
                   seen |-> IF a.ret THEN me.confirmed_seen ELSE a.confirmed_seen,
                   attempts |-> me.attempt + 1]
           ended == [me EXCEPT !.w = how]
       IN IF ~w.ret
          THEN /\ wk' = [wk EXCEPT ![sig].attempt = @ + 1,
                                   ![sig].confirmed_seen = w.confirmed_seen]
               /\ UNCHANGED pending_trades
          ELSE IF w.err = "MISSING_DELTAS"
          THEN /\ wk' = [wk EXCEPT ![sig] = [ended EXCEPT
                                   !.pc = "md_bal", !.path = "missing",
                                   !.attempt = 0, !.confirmed_seen = FALSE,
                                   !.sol_delta = w.sol[1]]]
               /\ UNCHANGED pending_trades
          ELSE IF w.err = "RECEIPT_PENDING"
          THEN /\ wk' = [wk EXCEPT ![sig] = CallReturn(ended, "PENDING", "", w.err)]
               /\ UNCHANGED pending_trades
          ELSE IF w.err # ""
          THEN /\ pending_trades' = UpdatePendingTradeStatus(pending_trades, sig, "FAILED",
                                                             w.err, None, None)
               /\ wk' = [wk EXCEPT ![sig] = CallReturn(ended, "FAILED", w.err, w.err)]
          ELSE /\ wk' = [wk EXCEPT ![sig] = [ended EXCEPT
                                   !.pc = "apply_r", !.path = "direct",
                                   !.attempt = 0, !.confirmed_seen = FALSE,
                                   !.sol = Abs(w.sol[1]), !.tok = Abs(w.tok[1])]]
               /\ UNCHANGED pending_trades
    /\ UNCHANGED <<positions, trades, chain, onchain_bal, sw, led, ap, mon>>

\* auto_trader.py:126-136: the MISSING_DELTAS branch reads the intent, picks
\* the SOL amount and asks the RPC for the owner's token balance
WkMissingBal(sig, bal_resp) ==
    /\ sig \in DOMAIN wk
    /\ wk[sig].pc = "md_bal"
    /\ bal_resp \in BalanceResponses
    /\ LET me == wk[sig]
           pending_exists == sig \in DOMAIN pending_trades
           from_delta == Abs(me.sol_delta)
           sol_amount == IF me.side = "BUY" /\ pending_exists
                            /\ Truthy(pending_trades[sig].requested_sol_amount)
                         THEN pending_trades[sig].requested_sol_amount[1]
                         ELSE from_delta
       IN wk' = [wk EXCEPT ![sig].sol = sol_amount, ![sig].bal = bal_resp,
                           ![sig].pc = "md_pos"]
    /\ UNCHANGED <<positions, trades, pending_trades, chain, onchain_bal, sw, led, ap, mon>>

\* auto_trader.py:138-166: the token amount is the difference between the
\* on-chain balance and the tracked balance when that is positive, else the
\* requested token amount; without a positive pair of amounts: PENDING
WkMissingPos(sig) ==
    /\ sig \in DOMAIN wk
    /\ wk[sig].pc = "md_pos"
    /\ LET me == wk[sig]
           prev_bal == RowOrDefault(positions, me.k).token_balance
           delta == IF me.bal = None THEN 0
                    ELSE IF me.side = "BUY" THEN me.bal[1] - prev_bal
                    ELSE prev_bal - me.bal[1]
           pending_exists == sig \in DOMAIN pending_trades
           token_amount == IF me.bal # None /\ delta > 0 THEN delta
                           ELSE IF pending_exists
                                   /\ Truthy(pending_trades[sig].requested_token_amount)
                           THEN pending_trades[sig].requested_token_amount[1]
                           ELSE 0
       IN IF me.sol > 0 /\ token_amount > 0
          THEN wk' = [wk EXCEPT ![sig].tok = token_amount, ![sig].bal = None,
                                ![sig].pc = "apply_r"]
          ELSE wk' = [wk EXCEPT ![sig] = CallReturn(me, "PENDING", "Missing token deltas",
                                                    "MISSING_DELTAS")]
    /\ UNCHANGED <<positions, trades, pending_trades, chain, onchain_bal, sw, led, ap, mon>>

\* db.py:441-480 inside auto_trader.py:151, 176 and telethon_listener.py:349:
\* apply_trade's SELECT and computation; its errors raise into the caller's
\* try block
WkApplyRead(sig) ==
    /\ sig \in DOMAIN wk
    /\ wk[sig].pc = "apply_r"
    /\ LET me == wk[sig]
           row == RowOrDefault(positions, me.k)
           c == ComputeTrade(row, me.side, me.tok, me.sol)
       IN IF c.err # ""
          THEN wk' = [wk EXCEPT ![sig] = AfterApplyError(me)]
          ELSE wk' = [wk EXCEPT ![sig].snap_exists = me.k \in DOMAIN positions,
                                ![sig].snap = row, ![sig].pc = "apply_w"]
    /\ UNCHANGED <<positions, trades, pending_trades, chain, onchain_bal, sw, led, ap, mon>>

\* db.py:482-521: apply_trade's write transaction
WkApplyWrite(sig) ==
    /\ sig \in DOMAIN wk
    /\ wk[sig].pc = "apply_w"
    /\ LET me == wk[sig]
           r == WriteTradeOn(positions, trades, me.snap_exists, me.snap, me.k, me.side,
                             me.tok, me.sol, sig)
       IN /\ positions' = r.positions
          /\ trades' = r.trades
          /\ IF r.err # ""
             THEN wk' = [wk EXCEPT ![sig] = AfterApplyError(me)]
             ELSE wk' = [wk EXCEPT ![sig].snap_exists = FALSE, ![sig].snap = DefaultRow,
                                   ![sig].pc = "resolve"]
    /\ UNCHANGED <<pending_trades, chain, onchain_bal, sw, led, ap, mon>>

\* auto_trader.py:152-163, 177-182, telethon_listener.py:350-355: the intent
\* is resolved to SUCCESS with the amounts just applied
WkResolve(sig) ==
    /\ sig \in DOMAIN wk
    /\ wk[sig].pc = "resolve"
    /\ LET me == wk[sig]
       IN /\ pending_trades' = UpdatePendingTradeStatus(pending_trades, sig, "SUCCESS", "",
                                                        Some(me.tok), Some(me.sol))
          /\ wk' = [wk EXCEPT ![sig] =
                       IF me.path = "direct" THEN [me EXCEPT !.pc = "recon"]
                       ELSE IF me.path = "missing" THEN CallReturn(me, "SUCCESS", "", "")
                       ELSE [FreshCall(me) EXCEPT !.pc = "done"]]
    /\ UNCHANGED <<positions, trades, chain, onchain_bal, sw, led, ap, mon>>

\* auto_trader.py:183-194 with the entry cost rebased on the on-chain balance
\* (a plausible slip: the drift correction also "repairs" the average)
WkReconRebasesCost(sig, bal_resp) ==
    /\ sig \in DOMAIN wk
    /\ wk[sig].pc = "recon"
    /\ bal_resp \in BalanceResponses
    /\ positions' =
          IF bal_resp = None \/ wk[sig].k \notin DOMAIN positions THEN positions
          ELSE [positions EXCEPT
                  ![wk[sig].k].token_balance = bal_resp[1],
                  ![wk[sig].k].avg_entry_sol =
                      IF bal_resp[1] > 0
                      THEN Frac(positions[wk[sig].k].total_sol_spent, bal_resp[1])
                      ELSE Zero]
    /\ wk' = [wk EXCEPT ![sig] = CallReturn(wk[sig], "SUCCESS", "", "")]
    /\ UNCHANGED <<trades, pending_trades, chain, onchain_bal, sw, led, ap, mon>>

\* auto_trader.py:183-194: after a direct SUCCESS the tracked balance is set
\* to the on-chain balance when the RPC reports one
WkRecon(sig, bal_resp) ==
    /\ sig \in DOMAIN wk
    /\ wk[sig].pc = "recon"
    /\ bal_resp \in BalanceResponses
    /\ positions' = IF bal_resp = None THEN positions
                    ELSE ReconcileBalance(wk[sig].k, bal_resp[1])
    /\ wk' = [wk EXCEPT ![sig] = CallReturn(wk[sig], "SUCCESS", "", "")]
    /\ UNCHANGED <<trades, pending_trades, chain, onchain_bal, sw, led, ap, mon>>

\* telethon_listener.py:322-325: the bridge's loop ended PENDING; it asks
\* the RPC for the owner's token balance
WkFallbackBal(sig, bal_resp) ==
    /\ sig \in DOMAIN wk
    /\ wk[sig].pc = "fb_bal"
    /\ bal_resp \in BalanceResponses
    /\ wk' = [wk EXCEPT ![sig] = IF bal_resp = None THEN [FreshCall(@) EXCEPT !.pc = "done"]
                                 ELSE [@ EXCEPT !.bal = bal_resp, !.pc = "fb_pos"]]
    /\ UNCHANGED <<positions, trades, pending_trades, chain, onchain_bal, sw, led, ap, mon>>

\* telethon_listener.py:332-364: a positive difference to the tracked
\* balance is applied as the BUY at the requested SOL amount, anything else
\* only overwrites the tracked balance
WkFallbackPos(sig) ==
    /\ sig \in DOMAIN wk
    /\ wk[sig].pc = "fb_pos"
    /\ LET me == wk[sig]
           prev_bal == RowOrDefault(positions, me.k).token_balance
           delta == me.bal[1] - prev_bal
           sol_amt == IF sig \in DOMAIN pending_trades
                         /\ Truthy(pending_trades[sig].requested_sol_amount)
                      THEN pending_trades[sig].requested_sol_amount[1] ELSE 0
       IN IF delta > 0 /\ sol_amt > 0
          THEN /\ wk' = [wk EXCEPT ![sig].tok = delta, ![sig].sol = sol_amt,
                                   ![sig].bal = None, ![sig].pc = "apply_r"]
               /\ UNCHANGED positions
          ELSE /\ positions' = ReconcileBalance(me.k, me.bal[1])
               /\ wk' = [wk EXCEPT ![sig] = [FreshCall(me) EXCEPT !.pc = "done"]]
    /\ UNCHANGED <<trades, pending_trades, chain, onchain_bal, sw, led, ap, mon>>

----------------------------------------------------------------------------
(* The standalone sweep: cli.py `reconcile` *)

\* runs of the sweep (the operator's invocations, or the rounds of --watch)
MaxSweeps == 1
\* cli.py:94: --limit (20 by default)
SweepLimit == 2

\* settled records the selected signatures that were already settled when
\* the run selected them
SwIdle(runs) ==
    [pc |-> "idle", runs |-> runs, rows |-> <<>>, i |-> 0, tok |-> 0, sol |-> 0,
     snap_exists |-> FALSE, snap |-> DefaultRow, settled |-> {}]

\* cli.py:333-336, 379: the loop moves on to the next selected row, and the
\* run ends after the last
SwNextRow(me) ==
    IF me.i < Len(me.rows)
    THEN [me EXCEPT !.i = @ + 1, !.pc = "fetch", !.tok = 0, !.sol = 0,
                    !.snap_exists = FALSE, !.snap = DefaultRow]
    ELSE SwIdle(me.runs)

\* cli.py:326-330: a run selects its rows once, by status, oldest first
SweepStart(status) ==
    /\ sw.pc = "idle"
    /\ sw.runs < MaxSweeps
    /\ LET rows == ListPendingTrades(pending_trades, status, SweepLimit)
       IN sw' = IF rows = <<>> THEN SwIdle(sw.runs + 1)
                ELSE [SwIdle(sw.runs + 1) EXCEPT
                         !.pc = "fetch", !.rows = rows, !.i = 1,
                         !.settled = {x \in DOMAIN pending_trades : Settled(x)}]
    /\ UNCHANGED <<positions, trades, pending_trades, chain, onchain_bal, wk, led, ap, mon>>

\* cli.py:334-363 with a receipt whose deltas are missing resolved FAILED
\* instead of skipped
SweepFetchFailsMissingDeltas(tx_resp) ==
    /\ sw.pc = "fetch"
    /\ LET sig == sw.rows[sw.i]
       IN /\ tx_resp \in TxResponses(sig)
          /\ IF tx_resp = "raise"
             THEN /\ sw' = SwIdle(sw.runs)
                  /\ UNCHANGED pending_trades
             ELSE IF tx_resp = "none"
             THEN /\ sw' = SwNextRow(sw)
                  /\ UNCHANGED pending_trades
             ELSE IF chain[sig].err # ""
             THEN /\ pending_trades' = UpdatePendingTradeStatus(pending_trades, sig, "FAILED",
                                                                chain[sig].err, None, None)
                  /\ sw' = SwNextRow(sw)
             ELSE LET deltas == ExtractTxDeltas(chain[sig])
                  IN IF deltas.sol_delta_lamports = None \/ deltas.token_delta_ui = None
                     THEN /\ pending_trades' = UpdatePendingTradeStatus(
                                                   pending_trades, sig, "FAILED",
                                                   "missing deltas", None, None)
                          /\ sw' = SwNextRow(sw)
                     ELSE /\ UNCHANGED pending_trades
                          /\ sw' = [sw EXCEPT !.sol = Abs(deltas.sol_delta_lamports[1]),
                                              !.tok = Abs(deltas.token_delta_ui[1]),
                                              !.pc = "apply_r"]
    /\ UNCHANGED <<positions, trades, chain, onchain_bal, wk, led, ap, mon>>

\* cli.py:334-363: the receipt of the row's signature is fetched.  An RPC
\* error is not caught and ends the run; no receipt or no token delta skips
\* the row; a receipt with an error resolves the intent FAILED
SweepFetch(tx_resp) ==
    /\ sw.pc = "fetch"
    /\ LET sig == sw.rows[sw.i]
       IN /\ tx_resp \in TxResponses(sig)
          /\ IF tx_resp = "raise"
             THEN /\ sw' = SwIdle(sw.runs)
                  /\ UNCHANGED pending_trades
             ELSE IF tx_resp = "none"
             THEN /\ sw' = SwNextRow(sw)
                  /\ UNCHANGED pending_trades
             ELSE IF chain[sig].err # ""
             THEN /\ pending_trades' = UpdatePendingTradeStatus(pending_trades, sig, "FAILED",
                                                                chain[sig].err, None, None)
                  /\ sw' = SwNextRow(sw)
             ELSE LET deltas == ExtractTxDeltas(chain[sig])
                  IN /\ UNCHANGED pending_trades
                     /\ IF deltas.sol_delta_lamports = None \/ deltas.token_delta_ui = None
                        THEN sw' = SwNextRow(sw)
                        ELSE sw' = [sw EXCEPT !.sol = Abs(deltas.sol_delta_lamports[1]),
                                              !.tok = Abs(deltas.token_delta_ui[1]),
                                              !.pc = "apply_r"]
    /\ UNCHANGED <<positions, trades, chain, onchain_bal, wk, led, ap, mon>>

\* cli.py:365-372 into db.py:441-480: apply_trade's SELECT; an error it
\* raises is not caught and ends the run
SweepApplyRead ==
    /\ sw.pc = "apply_r"
    /\ LET sig == sw.rows[sw.i]
           k == <<pending_trades[sig].user, pending_trades[sig].mint>>
           row == RowOrDefault(positions, k)
           c == ComputeTrade(row, pending_trades[sig].side, sw.tok, sw.sol)
       IN sw' = IF c.err # "" THEN SwIdle(sw.runs)
                ELSE [sw EXCEPT !.snap_exists = k \in DOMAIN positions, !.snap = row,
                                !.pc = "apply_w"]
    /\ UNCHANGED <<positions, trades, pending_trades, chain, onchain_bal, wk, led, ap, mon>>

\* cli.py:365-372 into db.py:482-521: apply_trade's write transaction
SweepApplyWrite ==
    /\ sw.pc = "apply_w"
    /\ LET sig == sw.rows[sw.i]
           k == <<pending_trades[sig].user, pending_trades[sig].mint>>
           r == WriteTradeOn(positions, trades, sw.snap_exists, sw.snap, k,
                             pending_trades[sig].side, sw.tok, sw.sol, sig)
       IN /\ positions' = r.positions
          /\ trades' = r.trades
          /\ sw' = IF r.err # "" THEN SwIdle(sw.runs)
                   ELSE [sw EXCEPT !.snap_exists = FALSE, !.snap = DefaultRow,
                                   !.pc = "resolve"]
    /\ UNCHANGED <<pending_trades, chain, onchain_bal, wk, led, ap, mon>>

\* cli.py:373-378: the intent is resolved to SUCCESS with the applied amounts
SweepResolve ==
    /\ sw.pc = "resolve"
    /\ pending_trades' = UpdatePendingTradeStatus(pending_trades, sw.rows[sw.i], "SUCCESS", "",
                                                  Some(sw.tok), Some(sw.sol))
    /\ sw' = SwNextRow(sw)
    /\ UNCHANGED <<positions, trades, chain, onchain_bal, wk, led, ap, mon>>

----------------------------------------------------------------------------
(* The position monitor's registers *)

\* nothing evaluated: the inputs and the decision of the latest evaluation
NoEval == [open |-> 1, entry |-> Zero, enabled |-> 1, tp |-> 0, sl |-> 0,
           price_resp |-> "", price |-> Zero, why |-> ""]

\* auto_trader.py:274-279: the loop sleeps between two ticks (or has not
\* started); ticks counts the ticks begun
MonIdle(ticks) ==
    [pc |-> "idle", ticks |-> ticks, rows |-> <<>>, i |-> 0, last |-> NoEval,
     tokens |-> 0, sig |-> "", exc |-> ""]

----------------------------------------------------------------------------
(* Initial state: empty tables, nothing submitted, every process idle; the
   wallet holds no tokens of the mint, or tokens it received outside the
   program (an imported wallet) *)

ApInit == [base |-> <<>>, calls |-> <<>>]

\* the direct ledger caller has made no call; op, k, tok, sol are the side,
\* the pair and the amounts of its latest call, err the error that call raised
LedInit == [ops |-> 0, nrec |-> 0, op |-> "none", err |-> "", k |-> <<>>, tok |-> 0, sol |-> 0]

Init ==
    /\ positions = <<>>
    /\ trades = <<>>
    /\ pending_trades = <<>>
    /\ chain = <<>>
    /\ onchain_bal \in {0, MaxFill}
    /\ wk = <<>>
    /\ sw = SwIdle(0)
    /\ led = LedInit
    /\ ap = ApInit
    /\ mon = MonIdle(0)

----------------------------------------------------------------------------
(* The reconciliation system: submitters, their confirm loops, the cluster
   and the sweep, interleaved *)

Next ==
    \/ \E kind \in Kinds, k \in Pairs, sol_in \in 1..MaxCost,
          req \in {None} \cup {Some(t) : t \in 1..MaxFill} :
          SubmitBuy(kind, k, sol_in, req)
    \/ \E k \in Pairs, t \in 1..MaxFill : SubmitSell("bot", k, t)
    \/ \E sig \in Sigs, ok \in BOOLEAN, t \in 1..MaxFill, s \in 1..MaxCost,
          listed \in BOOLEAN : ChainLand(sig, ok, t, s, listed)
    \/ \E sig \in Sigs : ChainServe(sig)
    \/ \E sig \in Sigs, tx_resp \in {"raise", "none", "receipt"},
          st_resp \in {"raise", "none", "status"} : WkPoll(sig, tx_resp, st_resp)
    \/ \E sig \in Sigs, bal_resp \in BalanceResponses : WkMissingBal(sig, bal_resp)
    \/ \E sig \in Sigs : WkMissingPos(sig)
    \/ \E sig \in Sigs : WkApplyRead(sig)
    \/ \E sig \in Sigs : WkApplyWrite(sig)
    \/ \E sig \in Sigs : WkResolve(sig)
    \/ \E sig \in Sigs, bal_resp \in BalanceResponses : WkRecon(sig, bal_resp)
    \/ \E sig \in Sigs, bal_resp \in BalanceResponses : WkFallbackBal(sig, bal_resp)
    \/ \E sig \in Sigs : WkFallbackPos(sig)
    \/ \E status \in {"PENDING", "ALL"} : SweepStart(status)
    \/ \E tx_resp \in {"raise", "none", "receipt"} : SweepFetch(tx_resp)
    \/ SweepApplyRead
    \/ SweepApplyWrite
    \/ SweepResolve

Spec == Init /\ [][Next]_vars

----------------------------------------------------------------------------
(* The direct ledger caller: one operation at a time, any arguments *)

\* sides a caller may pass; "HOLD" stands for any string that is neither
LedgerSides == Sides \cup {"HOLD"}

\* cli.py:420-428 (`pos apply`): apply_trade with the command's arguments
LedgerApply(k, side, token_amount, sol_amount) ==
    /\ led.ops < MaxLedgerOps
    /\ LET r == ApplyTrade(k, side, token_amount, sol_amount, "")
       IN /\ positions' = r.positions
          /\ trades' = r.trades
          /\ led' = [led EXCEPT !.ops = @ + 1, !.op = side, !.err = r.err, !.k = k,
                                 !.tok = token_amount, !.sol = sol_amount]
    /\ UNCHANGED <<pending_trades, chain, onchain_bal, wk, sw, ap, mon>>

\* bot.py:77-92 (_reconcile_positions): the positions view sets the tracked
\* balance of a listed row to the balance the RPC reports
LedgerReconcile(k, bal) ==
    /\ led.ops < MaxLedgerOps
    /\ k \in DOMAIN positions
    /\ positions' = ReconcileBalance(k, bal)
    /\ led' = [led EXCEPT !.ops = @ + 1, !.nrec = @ + 1, !.op = "RECONCILE", !.err = "",
                           !.k = k, !.tok = bal, !.sol = 0]
    /\ UNCHANGED <<trades, pending_trades, chain, onchain_bal, wk, sw, ap, mon>>

NextLedger ==
    \/ \E k \in Pairs, side \in LedgerSides, t \in 0..MaxTok, s \in 0..MaxSol :
          LedgerApply(k, side, t, s)
    \/ \E k \in Pairs, bal \in 0..MaxTok : LedgerReconcile(k, bal)

SpecLedger == Init /\ [][NextLedger]_vars

----------------------------------------------------------------------------
(* Two callers of apply_trade on one database, each on its own connection *)

Callers == {"a", "b"}

\* the tables after one BUY of (t, s) on an empty database
AfterOneBuy(k, t, s) == ApplyTradeOn(<<>>, <<>>, k, "BUY", t, s, "")

\* the database is empty or holds one position opened by an earlier BUY
InitApply2 ==
    /\ \/ positions = <<>> /\ trades = <<>>
       \/ \E k \in Pairs, t \in 1..MaxTok, s \in 1..MaxSol :
             /\ positions = AfterOneBuy(k, t, s).positions
             /\ trades = AfterOneBuy(k, t, s).trades
    /\ ap = [base |-> positions, calls |-> <<>>]
    /\ pending_trades = <<>>
    /\ chain = <<>>
    /\ onchain_bal = 0
    /\ wk = <<>>
    /\ sw = SwIdle(0)
    /\ led = LedInit
    /\ mon = MonIdle(0)

\* db.py:420-448: a thread enters apply_trade; the argument checks of lines
\* 430-435 raise before the database is opened
ApCall(c, k, side, token_amount, sol_amount) ==
    /\ c \notin DOMAIN ap.calls
    /\ LET bad == token_amount <= 0 \/ sol_amount <= 0 \/ side \notin Sides
           call == [pc |-> IF bad THEN "done" ELSE "select",
                    k |-> k, side |-> side, token_amount |-> token_amount,
                    sol_amount |-> sol_amount, snap_exists |-> FALSE,
                    snap |-> RowOrDefault(<<>>, k),
                    err |-> IF bad THEN ComputeTrade(RowOrDefault(<<>>, k), side,
                                                     token_amount, sol_amount).err
                            ELSE ""]
       IN ap' = [ap EXCEPT !.calls = [x \in DOMAIN ap.calls \cup {c} |->
                                         IF x = c THEN call ELSE ap.calls[x]]]
    /\ UNCHANGED <<positions, trades, pending_trades, chain, onchain_bal, wk, sw, led, mon>>

\* db.py:441-480: the SELECT and the computation on the row it returned; the
\* SELL guards raise here, before any write
ApSelect(c) ==
    /\ c \in DOMAIN ap.calls
    /\ ap.calls[c].pc = "select"
    /\ LET me == ap.calls[c]
           row == RowOrDefault(positions, me.k)
           r == ComputeTrade(row, me.side, me.token_amount, me.sol_amount)
       IN ap' = [ap EXCEPT !.calls[c].snap_exists = me.k \in DOMAIN positions,
                           !.calls[c].snap = row,
                           !.calls[c].err = r.err,
                           !.calls[c].pc = IF r.err # "" THEN "done" ELSE "write"]
    /\ UNCHANGED <<positions, trades, pending_trades, chain, onchain_bal, wk, sw, led, mon>>

\* db.py:482-521 and connect (db.py:14-22): the write transaction and its commit
ApWrite(c) ==
    /\ c \in DOMAIN ap.calls
    /\ ap.calls[c].pc = "write"
    /\ LET me == ap.calls[c]
           r == WriteTradeOn(positions, trades, me.snap_exists, me.snap, me.k, me.side,
                             me.token_amount, me.sol_amount, "")
       IN /\ positions' = r.positions
          /\ trades' = r.trades
          /\ ap' = [ap EXCEPT !.calls[c].err = r.err, !.calls[c].pc = "done"]
    /\ UNCHANGED <<pending_trades, chain, onchain_bal, wk, sw, led, mon>>

NextApply2 ==
    \/ \E c \in Callers, k \in Pairs, side \in Sides, t \in 0..MaxTok, s \in 0..MaxSol :
          ApCall(c, k, side, t, s)
    \/ \E c \in Callers : ApSelect(c)
    \/ \E c \in Callers : ApWrite(c)

SpecApply2 == InitApply2 /\ [][NextApply2]_vars

----------------------------------------------------------------------------
(* apply_trade's write transaction statement by statement: the INSERT INTO
   trades, the UPDATE or INSERT of the position, and the exit of the
   `with connect()` block.  A call's buf holds the tables as its connection
   sees them, with its uncommitted writes; positions and trades are the
   committed tables every other connection reads. *)

\* db.py:14-22 with the commit moved into the finally clause (a plausible
\* slip: the connection commits even when the block raised)
ConnectExitAlwaysCommits(db, buf, raised) ==
    buf

\* db.py:14-22: the exit of the `with connect()` block: conn.commit() runs
\* only when the block did not raise; conn.close() discards what is uncommitted
ConnectExit(db, buf, raised) ==
    IF raised THEN db ELSE buf

\* a connection holds SQLite's write lock from its first write to its exit
WriteLocked == \E c \in DOMAIN ap.calls : ap.calls[c].pc \in {"upsert", "commit"}

Committed == [positions |-> positions, trades |-> trades]

\* db.py:482-489: INSERT INTO trades; the statement opens the implicit
\* transaction and waits while another connection holds the write lock
TxInsertTrade(c) ==
    /\ c \in DOMAIN ap.calls
    /\ ap.calls[c].pc = "write"
    /\ ~WriteLocked
    /\ LET me == ap.calls[c]
           row == TradeRow(me.k, me.side, me.token_amount, me.sol_amount, "")
           call == [k |-> me.k, side |-> me.side, token_amount |-> me.token_amount,
                    sol_amount |-> me.sol_amount, snap_exists |-> me.snap_exists,
                    snap |-> me.snap, err |-> "", pc |-> "upsert",
                    buf |-> [positions |-> positions, trades |-> Append(trades, row)]]
       IN ap' = [ap EXCEPT !.calls[c] = call]
    /\ UNCHANGED <<positions, trades, pending_trades, chain, onchain_bal, wk, sw, led, mon>>

\* db.py:482-489: the INSERT gives up when the write lock stays taken for
\* the connection's busy timeout: sqlite3.OperationalError, nothing written
TxBusy(c) ==
    /\ c \in DOMAIN ap.calls
    /\ ap.calls[c].pc = "write"
    /\ WriteLocked
    /\ ap' = [ap EXCEPT !.calls[c].pc = "done", !.calls[c].err = "database is locked"]
    /\ UNCHANGED <<positions, trades, pending_trades, chain, onchain_bal, wk, sw, led, mon>>

\* db.py:491-515: UPDATE positions when the SELECT had returned a row, else
\* INSERT INTO positions, which raises on UNIQUE(user_id, mint) when the row
\* exists by now; the exception leaves the `with` block
TxUpsertPosition(c) ==
    /\ c \in DOMAIN ap.calls
    /\ ap.calls[c].pc = "upsert"
    /\ LET me == ap.calls[c]
           new == ComputeTrade(me.snap, me.side, me.token_amount, me.sol_amount).row
           pos == me.buf.positions
       IN IF ~me.snap_exists /\ me.k \in DOMAIN pos
          THEN LET out == ConnectExit(Committed, me.buf, TRUE)
               IN /\ positions' = out.positions
                  /\ trades' = out.trades
                  /\ ap' = [ap EXCEPT
                              !.calls[c].pc = "done",
                              !.calls[c].err =
                                 "UNIQUE constraint failed: positions.user_id, positions.mint"]
          ELSE /\ ap' = [ap EXCEPT
                           !.calls[c].pc = "commit",
                           !.calls[c].buf.positions =
                              [x \in DOMAIN pos \cup {me.k} |->
                                  IF x = me.k THEN new ELSE pos[x]]]
               /\ UNCHANGED <<positions, trades>>
    /\ UNCHANGED <<pending_trades, chain, onchain_bal, wk, sw, led, mon>>

\* db.py:517-521 and 19: the closing SELECT, the return, and conn.commit()
TxCommit(c) ==
    /\ c \in DOMAIN ap.calls
    /\ ap.calls[c].pc = "commit"
    /\ LET out == ConnectExit(Committed, ap.calls[c].buf, FALSE)
       IN /\ positions' = out.positions
          /\ trades' = out.trades
    /\ ap' = [ap EXCEPT !.calls[c].pc = "done"]
    /\ UNCHANGED <<pending_trades, chain, onchain_bal, wk, sw, led, mon>>

\* the process is killed inside the transaction: SQLite discards the
\* uncommitted writes when the database is next opened
TxCrash(c) ==
    /\ c \in DOMAIN ap.calls
    /\ ap.calls[c].pc \in {"upsert", "commit"}
    /\ ap' = [ap EXCEPT !.calls[c].pc = "done", !.calls[c].err = "killed"]
    /\ UNCHANGED <<positions, trades, pending_trades, chain, onchain_bal, wk, sw, led, mon>>

NextTxn ==
    \/ \E c \in Callers, k \in Pairs, side \in Sides, t \in 0..MaxTok, s \in 0..MaxSol :
          ApCall(c, k, side, t, s)
    \/ \E c \in Callers : ApSelect(c)
    \/ \E c \in Callers : TxInsertTrade(c)
    \/ \E c \in Callers : TxBusy(c)
    \/ \E c \in Callers : TxUpsertPosition(c)
    \/ \E c \in Callers : TxCommit(c)
    \/ \E c \in Callers : TxCrash(c)

SpecTxn == InitApply2 /\ [][NextTxn]_vars

----------------------------------------------------------------------------
(* The pending-intent table under any sequence of enqueue and resolve calls *)

\* calls made on the pending-intent table
MaxIntentOps == 3

IntentSigs == {"s1", "s2"}

\* db.py:523-551: enqueue_pending_trade with any arguments
IntentEnqueue(sig, k, side, requested_token_amount, requested_sol_amount) ==
    /\ led.ops < MaxIntentOps
    /\ pending_trades' = EnqueuePendingTrade(pending_trades, k, side, sig,
                                             requested_token_amount, requested_sol_amount)
    /\ led' = [ops |-> led.ops + 1, op |-> "ENQUEUE", sig |-> sig,
               requested_token_amount |-> requested_token_amount,
               requested_sol_amount |-> requested_sol_amount]
    /\ UNCHANGED <<positions, trades, chain, onchain_bal, wk, sw, ap, mon>>

\* db.py:553-574: update_pending_trade_status as the reconcilers call it:
\* SUCCESS with the actual amounts, or FAILED with an error
IntentResolve(sig, status, token_amount, sol_amount) ==
    /\ led.ops < MaxIntentOps
    /\ pending_trades' =
          IF status = "SUCCESS"
          THEN UpdatePendingTradeStatus(pending_trades, sig, "SUCCESS", "",
                                        Some(token_amount), Some(sol_amount))
          ELSE UpdatePendingTradeStatus(pending_trades, sig, "FAILED", ProgramError,
                                        None, None)
    /\ led' = [ops |-> led.ops + 1, op |-> "RESOLVE", sig |-> sig,
               requested_token_amount |-> None, requested_sol_amount |-> None]
    /\ UNCHANGED <<positions, trades, chain, onchain_bal, wk, sw, ap, mon>>

NextIntents ==
    \/ \E sig \in IntentSigs, k \in Pairs, side \in Sides,
          rt \in {None} \cup {Some(t) : t \in 1..MaxFill},
          rs \in {Some(s) : s \in 0..MaxCost} :
          IntentEnqueue(sig, k, side, rt, rs)
    \/ \E sig \in IntentSigs, status \in {"SUCCESS", "FAILED"} :
          IntentResolve(sig, status, MaxFill, MaxCost)

SpecIntents == Init /\ [][NextIntents]_vars

----------------------------------------------------------------------------
(* Submission step by step: auto_trader.submit_buy_for_user and
   submit_sell_for_user, with the failures of each step.  led holds the
   registers of the one call. *)

\* mint decimals the lookup may report
Decimals == {6, 9}

\* token amounts a caller may ask to sell, in units of 1e-9 token
SellAmounts == {0, 1, 999, 1000, 2000}

RECURSIVE Pow10(_)
Pow10(n) == IF n = 0 THEN 1 ELSE 10 * Pow10(n - 1)

\* auto_trader.py:239 with the scaled amount rounded up (a plausible slip:
\* round-half-up or ceil in place of int)
UiToRawRoundsUp(tokens_ui, decimals) ==
    (tokens_ui + Pow10(9 - decimals) - 1) \div Pow10(9 - decimals)

\* auto_trader.py:239: int(tokens_ui * 10 ** decimals) for tokens_ui >= 0 in
\* units of 1e-9 token: the fraction of a raw unit is cut off
UiToRaw(tokens_ui, decimals) ==
    tokens_ui \div Pow10(9 - decimals)

\* auto_trader.py:98: tokens_out_raw / 10 ** decimals, in units of 1e-9 token
RawToUi(raw, decimals) ==
    raw * Pow10(9 - decimals)

AutoBuyDisabled == "Auto-buy is disabled for this user"

\* auto_trader.py:84 with the stored policy skipped when no override is
\* passed (a plausible slip: the default taken as enabled)
AutoBuyEnabledByDefault(stored, override) ==
    IF override = None THEN TRUE ELSE override[1]

\* auto_trader.py:84: the override decides when one is passed, else the
\* stored auto_buy_enabled
AutoBuyEnabled(stored, override) ==
    IF override = None THEN stored # 0 ELSE override[1]

\* the registers of a call that has just been entered
SubmitCall(fn, k) ==
    [fn |-> fn, k |-> k, pc |-> "send", err |-> "", stored |-> 1, override |-> None,
     sol_in |-> 0, tokens_ui |-> 0, raw |-> 0, sig |-> None, lookup_raised |-> FALSE,
     decimals |-> None, req |-> None, via |-> "command", chan |-> None, wallet |-> TRUE]

\* led is in a call of fn at pc
SubmitAt(fn, pc) == led # LedInit /\ led.fn = fn /\ led.pc = pc

\* auto_trader.py:83-88: the settings are read and the auto-buy gate decides
SbEnter(k, stored, override, sol_in) ==
    /\ led = LedInit
    /\ led' = IF AutoBuyEnabled(stored, override)
              THEN [SubmitCall("buy", k) EXCEPT !.stored = stored, !.override = override,
                                                !.sol_in = sol_in]
              ELSE [SubmitCall("buy", k) EXCEPT !.stored = stored, !.override = override,
                                                !.sol_in = sol_in, !.pc = "done",
                                                !.err = AutoBuyDisabled]
    /\ UNCHANGED <<positions, trades, pending_trades, chain, onchain_bal, wk, sw, ap, mon>>

\* db.get_effective_settings (imported by telethon_listener.py:15; its body
\* is not in db.py): the channel's override of a field when it has one, else
\* the user's stored value
EffectiveSetting(stored, chan) ==
    IF chan = None THEN stored ELSE chan[1]

\* telethon_listener.py:102-106 with the auto_buy_enabled test dropped
BridgeSkipsWithoutWalletOnly(effective, has_wallet) ==
    ~has_wallet

\* telethon_listener.py:102-106, 284-288: the bridge returns without
\* submitting when the effective auto_buy_enabled is 0 or the user has no
\* wallet
BridgeSkips(effective, has_wallet) ==
    effective = 0 \/ ~has_wallet

\* telethon_listener.py:99-111, 281-293: _auto_buy_sync for one signal and
\* one subscriber, up to its call of submit_buy_for_user with
\* auto_buy_enabled=True, whose settings read and gate follow at once
BrEnter(k, stored, chan, has_wallet, sol_in) ==
    /\ led = LedInit
    /\ LET call == [SubmitCall("buy", k) EXCEPT !.via = "bridge", !.stored = stored,
                                                !.chan = chan, !.wallet = has_wallet,
                                                !.sol_in = sol_in]
       IN led' = IF BridgeSkips(EffectiveSetting(stored, chan), has_wallet)
                 THEN [call EXCEPT !.fn = "bridge", !.pc = "done"]
                 ELSE IF AutoBuyEnabled(stored, Some(TRUE))
                 THEN [call EXCEPT !.override = Some(TRUE)]
                 ELSE [call EXCEPT !.override = Some(TRUE), !.pc = "done",
                                   !.err = AutoBuyDisabled]
    /\ UNCHANGED <<positions, trades, pending_trades, chain, onchain_bal, wk, sw, ap, mon>>

\* auto_trader.py:90-93: the keypair is loaded (which raises for a user
\* without a wallet) and send_buy_tx submits the transaction, returning its
\* signature and the plan (tokens_out_raw), or raises
SbSend(ok, tokens_out_raw) ==
    /\ SubmitAt("buy", "send")
    /\ ok => led.wallet
    /\ Cardinality(DOMAIN chain) < Len(SigOrder)
    /\ IF ok
       THEN /\ chain' = Extend(chain, NextSig, NewTx("BUY", 0))
            /\ led' = [led EXCEPT !.sig = Some(NextSig), !.raw = tokens_out_raw,
                                  !.pc = "decimals"]
       ELSE /\ led' = [led EXCEPT !.pc = "done", !.err = "send failed"]
            /\ UNCHANGED chain
    /\ UNCHANGED <<positions, trades, pending_trades, onchain_bal, wk, sw, ap, mon>>

\* auto_trader.py:95-98 into solana_rpc.py:106-162: try_get_mint_decimals
\* answers None or the decimals; an error of its get_account_info call is not
\* caught there nor here and ends submit_buy_for_user
SbDecimals(raises, resp) ==
    /\ SubmitAt("buy", "decimals")
    /\ led' = IF raises
              THEN [led EXCEPT !.lookup_raised = TRUE, !.pc = "done", !.err = "rpc error"]
              ELSE [led EXCEPT !.decimals = resp, !.pc = "enqueue",
                               !.req = IF resp = None THEN None
                                       ELSE Some(RawToUi(led.raw, resp[1]))]
    /\ UNCHANGED <<positions, trades, pending_trades, chain, onchain_bal, wk, sw, ap, mon>>

\* auto_trader.py:100-108: the intent is enqueued and the call returns
SbEnqueue ==
    /\ SubmitAt("buy", "enqueue")
    /\ pending_trades' = EnqueuePendingTrade(pending_trades, led.k, "BUY", led.sig[1],
                                             led.req, Some(led.sol_in))
    /\ led' = [led EXCEPT !.pc = "done"]
    /\ UNCHANGED <<positions, trades, chain, onchain_bal, wk, sw, ap, mon>>

\* auto_trader.py:236-241: the decimals lookup and the two checks of
\* submit_sell_for_user
SsEnter(k, tokens_ui, raises, resp) ==
    /\ led = LedInit
    /\ LET call == [SubmitCall("sell", k) EXCEPT !.tokens_ui = tokens_ui]
       IN led' = IF raises
                 THEN [call EXCEPT !.lookup_raised = TRUE, !.pc = "done", !.err = "rpc error"]
                 ELSE IF resp = None
                 THEN [call EXCEPT !.pc = "done",
                          !.err = "Could not determine mint decimals for sell sizing"]
                 ELSE IF UiToRaw(tokens_ui, resp[1]) <= 0
                 THEN [call EXCEPT !.decimals = resp, !.pc = "done",
                          !.err = "tokens_to_sell_raw computed as 0"]
                 ELSE [call EXCEPT !.decimals = resp,
                                   !.raw = UiToRaw(tokens_ui, resp[1])]
    /\ UNCHANGED <<positions, trades, pending_trades, chain, onchain_bal, wk, sw, ap, mon>>

\* auto_trader.py:243-250: the keypair is loaded, the plan built and
\* send_sell_tx submits the transaction, or one of them raises
SsSend(ok) ==
    /\ SubmitAt("sell", "send")
    /\ Cardinality(DOMAIN chain) < Len(SigOrder)
    /\ IF ok
       THEN /\ chain' = Extend(chain, NextSig,
                               NewTx("SELL", RawToUi(led.raw, led.decimals[1])))
            /\ led' = [led EXCEPT !.sig = Some(NextSig), !.pc = "enqueue"]
       ELSE /\ led' = [led EXCEPT !.pc = "done", !.err = "send failed"]
            /\ UNCHANGED chain
    /\ UNCHANGED <<positions, trades, pending_trades, onchain_bal, wk, sw, ap, mon>>

\* auto_trader.py:252-260: the intent is enqueued with the requested tokens
\* and 0.0 SOL, and the call returns
SsEnqueue ==
    /\ SubmitAt("sell", "enqueue")
    /\ pending_trades' = EnqueuePendingTrade(pending_trades, led.k, "SELL", led.sig[1],
                                             Some(led.tokens_ui), Some(0))
    /\ led' = [led EXCEPT !.pc = "done"]
    /\ UNCHANGED <<positions, trades, chain, onchain_bal, wk, sw, ap, mon>>

NextSubmit ==
    \/ \E k \in Pairs, stored \in {0, 1}, override \in {None, Some(TRUE), Some(FALSE)},
          sol_in \in 1..MaxCost : SbEnter(k, stored, override, sol_in)
    \/ \E k \in Pairs, stored \in {0, 1}, chan \in {None, Some(0), Some(1)},
          has_wallet \in BOOLEAN, sol_in \in 1..MaxCost :
          BrEnter(k, stored, chan, has_wallet, sol_in)
    \/ \E ok \in BOOLEAN, raw \in 1..MaxFill : SbSend(ok, raw)
    \/ \E raises \in BOOLEAN, resp \in {None} \cup {Some(d) : d \in Decimals} :
          SbDecimals(raises, resp)
    \/ SbEnqueue
    \/ \E k \in Pairs, tokens_ui \in SellAmounts, raises \in BOOLEAN,
          resp \in {None} \cup {Some(d) : d \in Decimals} : SsEnter(k, tokens_ui, raises, resp)
    \/ \E ok \in BOOLEAN : SsSend(ok)
    \/ SsEnqueue

SpecSubmit == Init /\ [][NextSubmit]_vars

----------------------------------------------------------------------------
(* auto_buy_for_user and auto_sell_for_position: submit, one confirm_trade
   call, and the mapping of its result to a return or an exception *)

\* auto_trader.py:203-208, 266-271 with the PENDING test dropped (a
\* plausible slip: only FAILED is treated as an error)
AutoOutcomeReturnsOnPending(sig, status, error) ==
    IF status = "FAILED"
    THEN [type |-> "TxFailed", sig |-> sig,
          err |-> IF error = "" THEN "Unknown error" ELSE error]
    ELSE [type |-> "return", sig |-> sig, err |-> ""]

\* auto_trader.py:203-208, 266-271: FAILED raises TxFailed(sig, error),
\* PENDING raises TxPending(sig, note), anything else returns sig
AutoOutcome(sig, status, error) ==
    IF status = "FAILED"
    THEN [type |-> "TxFailed", sig |-> sig,
          err |-> IF error = "" THEN "Unknown error" ELSE error]
    ELSE IF status = "PENDING"
    THEN [type |-> "TxPending", sig |-> sig,
          err |-> "Transaction submitted; awaiting receipt"]
    ELSE [type |-> "return", sig |-> sig, err |-> ""]

----------------------------------------------------------------------------
(* The position monitor: auto_trader.monitor_positions_loop *)

\* ticks of the monitor loop in one behaviour
MaxTicks == 2

\* values of take_profit_pct and stop_loss_pct a settings row may hold (the
\* column defaults are 30.0 and 20.0, db.py:95-96; 0 when the user sets it so)
TakeProfits == {0, 30}
StopLosses == {0, 20}

\* prices the curve may quote, in lamports per token unit: these percentages
\* of every entry cost a position of the model can have
PriceMarks == {79, 80, 81, 100, 129, 130}
Prices == {Frac(m * s, 100 * t) : m \in PriceMarks, s \in 1..MaxSol, t \in 1..MaxTok}

\* db.py:405-418: list_positions orders by mint
MonOrder == <<(<<"u1", "m1">>), (<<"u1", "m2">>)>>

\* auto_trader.py:282-295: the users that have an open position, and for
\* each of them all their position rows, as read at the start of the tick
ListPositionsForMonitor(pos) ==
    IF \E k \in DOMAIN pos : pos[k].open = 1
    THEN LET ks == SelectSeq(MonOrder, LAMBDA k : k \in DOMAIN pos)
         IN [j \in 1..Len(ks) |-> [k |-> ks[j], pos |-> pos[ks[j]]]]
    ELSE <<>>

\* auto_trader.py:321 with > in place of >=
TpTriggersStrictly(entry, price, tp) ==
    /\ tp > 0
    /\ ~RLeq(price, Frac(entry[1] * (100 + tp), entry[2] * 100))

\* auto_trader.py:321: tp > 0 and price >= entry * (1 + tp / 100.0)
TpTriggers(entry, price, tp) ==
    /\ tp > 0
    /\ RLeq(Frac(entry[1] * (100 + tp), entry[2] * 100), price)

\* auto_trader.py:325 with < in place of <=
SlTriggersStrictly(entry, price, sl) ==
    /\ sl > 0
    /\ ~RLeq(Frac(entry[1] * (100 - sl), entry[2] * 100), price)

\* auto_trader.py:325: sl > 0 and price <= entry * (1 - sl / 100.0)
SlTriggers(entry, price, sl) ==
    /\ sl > 0
    /\ RLeq(price, Frac(entry[1] * (100 - sl), entry[2] * 100))

\* auto_trader.py:298-327 with the tp_sl_enabled test dropped
EvaluatePositionIgnoresSwitch(row, enabled, tp, sl, price_resp, price) ==
    IF row.open = 0 THEN "closed"
    ELSE IF ~(row.avg_entry_sol[1] > 0) THEN "no_cost"
    ELSE IF price_resp = "raise" THEN "error"
    ELSE IF price_resp = "none" THEN "no_price"
    ELSE IF TpTriggers(row.avg_entry_sol, price, tp) THEN "tp"
    ELSE IF SlTriggers(row.avg_entry_sol, price, sl) THEN "sl"
    ELSE "hold"

\* auto_trader.py:298-327: what _evaluate_position decides for a row, given
\* the settings it reads and the answer of the price lookup (price_resp is
\* "ok" with a price, "none" when _current_price_sol_per_token returns None,
\* "raise" when its RPC call or its decoding raises)
EvaluatePosition(row, enabled, tp, sl, price_resp, price) ==
    IF row.open = 0 THEN "closed"
    ELSE IF enabled = 0 THEN "disabled"
    ELSE IF ~(row.avg_entry_sol[1] > 0) THEN "no_cost"
    ELSE IF price_resp = "raise" THEN "error"
    ELSE IF price_resp = "none" THEN "no_price"
    ELSE IF TpTriggers(row.avg_entry_sol, price, tp) THEN "tp"
    ELSE IF SlTriggers(row.avg_entry_sol, price, sl) THEN "sl"
    ELSE "hold"

\* auto_trader.py:276-279: an exception in _evaluate_position is caught
\* nowhere: it leaves monitor_positions_loop and ends the process (cli.py:391)
MonAbort(m, exc) == [m EXCEPT !.pc = "aborted", !.exc = exc]

\* auto_trader.py:277-279 with the row evaluated again instead of left
MonAfterReEvaluates(m) ==
    [m EXCEPT !.pc = "eval", !.last = NoEval, !.tokens = 0, !.sig = ""]

\* auto_trader.py:277-279: on to the next row of the tick, and to the sleep
\* after the last
MonAfter(m) ==
    IF m.i < Len(m.rows)
    THEN [m EXCEPT !.i = @ + 1, !.pc = "eval", !.last = NoEval, !.tokens = 0, !.sig = ""]
    ELSE MonIdle(m.ticks)

\* auto_trader.py:275-276: a tick begins by listing the positions
MonTick ==
    /\ mon.pc = "idle"
    /\ mon.ticks < MaxTicks
    /\ LET rows == ListPositionsForMonitor(positions)
       IN mon' = IF rows = <<>> THEN MonIdle(mon.ticks + 1)
                 ELSE [MonIdle(mon.ticks + 1) EXCEPT !.pc = "eval", !.rows = rows, !.i = 1]
    /\ UNCHANGED <<positions, trades, pending_trades, chain, onchain_bal, wk, sw, led, ap>>

\* auto_trader.py:298-327: _evaluate_position up to its decision
MonEvaluate(enabled, tp, sl, price_resp, price) ==
    /\ mon.pc = "eval"
    /\ price_resp # "ok" => price = Zero
    /\ LET row == mon.rows[mon.i].pos
           why == EvaluatePosition(row, enabled, tp, sl, price_resp, price)
           seen == [open |-> row.open, entry |-> row.avg_entry_sol, enabled |-> enabled,
                    tp |-> tp, sl |-> sl, price_resp |-> price_resp, price |-> price,
                    why |-> why]
       IN mon' = IF why = "error"
                 THEN MonAbort([mon EXCEPT !.last = seen], "price lookup failed")
                 ELSE IF why \in {"tp", "sl"}
                 THEN [mon EXCEPT !.last = seen, !.pc = "sell", !.tokens = row.token_balance]
                 ELSE [mon EXCEPT !.last = seen, !.pc = "evaluated"]
    /\ UNCHANGED <<positions, trades, pending_trades, chain, onchain_bal, wk, sw, led, ap>>

\* auto_trader.py:277: _evaluate_position returned without selling
MonNext ==
    /\ mon.pc = "evaluated"
    /\ mon' = MonAfter(mon)
    /\ UNCHANGED <<positions, trades, pending_trades, chain, onchain_bal, wk, sw, led, ap>>

\* auto_trader.py:322, 326 into 263 and 233-260: auto_sell_for_position
\* calls submit_sell_for_user with the row's token_balance; its errors
\* (decimals lookup, sizing, sending) are caught nowhere
MonSubmit(raises, resp, ok) ==
    /\ mon.pc = "sell"
    /\ Cardinality(DOMAIN chain) < Len(SigOrder)
    /\ LET k == mon.rows[mon.i].k
           failed == IF raises THEN "rpc error"
                     ELSE IF resp = None
                     THEN "Could not determine mint decimals for sell sizing"
                     ELSE IF UiToRaw(mon.tokens, resp[1]) <= 0
                     THEN "tokens_to_sell_raw computed as 0"
                     ELSE IF ~ok THEN "send failed"
                     ELSE ""
       IN IF failed # ""
          THEN /\ mon' = MonAbort([mon EXCEPT !.last = NoEval], failed)
               /\ UNCHANGED <<chain, pending_trades, wk>>
          ELSE /\ chain' = Extend(chain, NextSig,
                                  NewTx("SELL", RawToUi(UiToRaw(mon.tokens, resp[1]), resp[1])))
               /\ pending_trades' = EnqueuePendingTrade(pending_trades, k, "SELL", NextSig,
                                                        Some(mon.tokens), Some(0))
               /\ wk' = Extend(wk, NextSig, NewWorker(NextSig, "auto", k, "SELL"))
               /\ mon' = [mon EXCEPT !.pc = "confirm", !.sig = NextSig, !.last = NoEval]
    /\ UNCHANGED <<positions, trades, onchain_bal, sw, led, ap>>

\* auto_trader.py:202-208, 265-271: confirm_trade has returned to
\* auto_buy_for_user or auto_sell_for_position, which returns the signature
\* or raises; in the monitor the exception leaves the loop
AutoEnd(sig) ==
    /\ sig \in DOMAIN wk
    /\ wk[sig].kind = "auto"
    /\ wk[sig].pc = "done"
    /\ LET out == AutoOutcome(sig, wk[sig].res, wk[sig].res_error)
       IN /\ wk' = [wk EXCEPT ![sig].pc = "ended", ![sig].exc = out]
          /\ mon' = IF mon.pc = "confirm" /\ mon.sig = sig
                    THEN IF out.type = "return" THEN MonAfter(mon)
                         ELSE MonAbort(mon, out.type)
                    ELSE mon
    /\ UNCHANGED <<positions, trades, pending_trades, chain, onchain_bal, sw, led, ap>>

\* the tables with one more BUY of (t, s) on pair k
WithOpen(b, k, t, s) == ApplyTradeOn(b.positions, b.trades, k, "BUY", t, s, "")

\* the tables with a position of pair k that was bought and sold in full
WithClosed(b, k) ==
    LET x == WithOpen(b, k, 1, 1)
    IN ApplyTradeOn(x.positions, x.trades, k, "SELL", 1, 1, "")

\* the monitor starts on a database where m2 was never traded or is closed,
\* and m1 was never traded, is closed, or is open after one BUY; the wallet
\* holds the tracked balance of m1
InitMonitor ==
    /\ \E b2 \in {[positions |-> <<>>, trades |-> <<>>],
                  WithClosed([positions |-> <<>>, trades |-> <<>>], MonOrder[2])} :
          \E b \in {b2, WithClosed(b2, MonOrder[1])}
                   \cup {WithOpen(b2, MonOrder[1], t, s) : t \in 1..MaxTok, s \in 1..MaxSol} :
             /\ positions = b.positions
             /\ trades = b.trades
             /\ onchain_bal = RowOrDefault(b.positions, MonOrder[1]).token_balance
    /\ pending_trades = <<>>
    /\ chain = <<>>
    /\ wk = <<>>
    /\ sw = SwIdle(0)
    /\ led = LedInit
    /\ ap = ApInit
    /\ mon = MonIdle(0)

NextMonitor ==
    \/ MonTick
    \/ \E enabled \in {0, 1}, tp \in TakeProfits, sl \in StopLosses,
          price_resp \in {"ok", "none", "raise"}, price \in Prices \cup {Zero} :
          MonEvaluate(enabled, tp, sl, price_resp, price)
    \/ MonNext
    \/ \E raises \in BOOLEAN, resp \in {None} \cup {Some(d) : d \in Decimals},
          ok \in BOOLEAN : MonSubmit(raises, resp, ok)
    \/ \E sig \in Sigs, ok \in BOOLEAN, t \in 1..MaxFill, s \in 1..MaxCost,
          listed \in BOOLEAN : ChainLand(sig, ok, t, s, listed)
    \/ \E sig \in Sigs : ChainServe(sig)
    \/ \E sig \in Sigs, tx_resp \in {"raise", "none", "receipt"},
          st_resp \in {"raise", "none", "status"} : WkPoll(sig, tx_resp, st_resp)
    \/ \E sig \in Sigs, bal_resp \in BalanceResponses : WkMissingBal(sig, bal_resp)
    \/ \E sig \in Sigs : WkMissingPos(sig)
    \/ \E sig \in Sigs : WkApplyRead(sig)
    \/ \E sig \in Sigs : WkApplyWrite(sig)
    \/ \E sig \in Sigs : WkResolve(sig)
    \/ \E sig \in Sigs, bal_resp \in BalanceResponses : WkRecon(sig, bal_resp)
    \/ \E sig \in Sigs : AutoEnd(sig)

SpecMonitor == InitMonitor /\ [][NextMonitor]_vars

\* a user command runs auto_buy_for_user or auto_sell_for_position
\* (bot.py:429, 455, 490, 525)
NextAuto ==
    \/ \E k \in Pairs, sol_in \in 1..MaxCost,
          req \in {None} \cup {Some(t) : t \in 1..MaxFill} :
          SubmitBuy("auto", k, sol_in, req)
    \/ \E k \in Pairs, t \in 1..MaxFill : SubmitSell("auto", k, t)
    \/ \E sig \in Sigs, ok \in BOOLEAN, t \in 1..MaxFill, s \in 1..MaxCost,
          listed \in BOOLEAN : ChainLand(sig, ok, t, s, listed)
    \/ \E sig \in Sigs : ChainServe(sig)
    \/ \E sig \in Sigs, tx_resp \in {"raise", "none", "receipt"},
          st_resp \in {"raise", "none", "status"} : WkPoll(sig, tx_resp, st_resp)
    \/ \E sig \in Sigs, bal_resp \in BalanceResponses : WkMissingBal(sig, bal_resp)
    \/ \E sig \in Sigs : WkMissingPos(sig)
    \/ \E sig \in Sigs : WkApplyRead(sig)
    \/ \E sig \in Sigs : WkApplyWrite(sig)
    \/ \E sig \in Sigs : WkResolve(sig)
    \/ \E sig \in Sigs, bal_resp \in BalanceResponses : WkRecon(sig, bal_resp)
    \/ \E sig \in Sigs : AutoEnd(sig)

SpecAuto == Init /\ [][NextAuto]_vars

----------------------------------------------------------------------------
(* The sweep run again and again over intents whose submitters have exited *)

\* signatures in the order of their submission
SweepSigOrder == <<"s1", "s2", "s3", "s4">>

\* one intent more than a page of the sweep holds
SweepSigs == {SweepSigOrder[i] : i \in 1..(SweepLimit + 1)}

\* auto_trader.py:90-108: a buy is submitted and its intent enqueued; the
\* submitting process then exits without confirming
SwSubmit(k, sol_in) ==
    /\ Cardinality(DOMAIN chain) < SweepLimit + 1
    /\ LET sig == SweepSigOrder[Cardinality(DOMAIN chain) + 1]
       IN /\ chain' = Extend(chain, sig, NewTx("BUY", 0))
          /\ pending_trades' = EnqueuePendingTrade(pending_trades, k, "BUY", sig,
                                                   None, Some(sol_in))
    /\ UNCHANGED <<positions, trades, onchain_bal, wk, sw, led, ap, mon>>

\* cli.py:381-387: the sweep is run again (the next round of --watch, or the
\* operator's next invocation); runs counts the runs since the last reset
SweepAgain ==
    /\ sw.pc = "idle"
    /\ sw.runs = MaxSweeps
    /\ sw' = SwIdle(0)
    /\ UNCHANGED <<positions, trades, pending_trades, chain, onchain_bal, wk, led, ap, mon>>

\* the fetch of SweepFetch when the row at hand is that of sig
SweepFetchOf(sig, tx_resp) ==
    /\ sw.pc = "fetch"
    /\ sw.rows[sw.i] = sig
    /\ SweepFetch(tx_resp)

NextSweep ==
    \/ \E k \in Pairs : SwSubmit(k, 1)
    \/ \E sig \in SweepSigs, ok \in BOOLEAN, listed \in BOOLEAN : ChainLand(sig, ok, 1, 1, listed)
    \/ \E sig \in SweepSigs : ChainServe(sig)
    \/ SweepStart("PENDING")
    \/ \E tx_resp \in {"raise", "none", "receipt"} : SweepFetch(tx_resp)
    \/ SweepApplyRead
    \/ SweepApplyWrite
    \/ SweepResolve
    \/ SweepAgain

\* the sweep keeps running (cron or --watch), each of its steps is
\* eventually taken, getTransaction does not fail for ever on any
\* signature, and a receipt the cluster serves is eventually its answer; no
\* transaction is assumed to land
SpecSweep ==
    /\ Init
    /\ [][NextSweep]_vars
    /\ WF_vars(SweepStart("PENDING"))
    /\ WF_vars(SweepAgain)
    /\ WF_vars(\E tx_resp \in {"raise", "none", "receipt"} : SweepFetch(tx_resp))
    /\ \A sig \in SweepSigs :
          /\ SF_vars(\E tx_resp \in {"none", "receipt"} : SweepFetchOf(sig, tx_resp))
          /\ SF_vars(SweepFetchOf(sig, "receipt"))
    /\ WF_vars(SweepApplyRead)
    /\ WF_vars(SweepApplyWrite)
    /\ WF_vars(SweepResolve)

----------------------------------------------------------------------------
(* Trading cycles on one pair: buys and sells applied one after another *)

\* apply_trade calls in one behaviour of the cycles
MaxCycleOps == 4

\* cli.py:420-428 (`pos apply`), or any caller of apply_trade with a
\* confirmed fill: one more BUY or SELL of the pair
CycleApply(k, side, token_amount, sol_amount) ==
    /\ led.ops < MaxCycleOps
    /\ LET r == ApplyTrade(k, side, token_amount, sol_amount, "")
       IN /\ positions' = r.positions
          /\ trades' = r.trades
          /\ led' = [led EXCEPT !.ops = @ + 1, !.op = side, !.err = r.err, !.k = k,
                                 !.tok = token_amount, !.sol = sol_amount]
    /\ UNCHANGED <<pending_trades, chain, onchain_bal, wk, sw, ap, mon>>

NextCycle ==
    \E k \in Pairs, side \in Sides, t \in 1..MaxTok, s \in 1..MaxSol :
        CycleApply(k, side, t, s)

SpecCycle == Init /\ [][NextCycle]_vars

----------------------------------------------------------------------------
(* Two bridge workers of one subscriber and one mint at the fallback *)

\* telethon_listener.py:385-386: one thread per routed signal; two signals
\* naming the same mint give two workers with a buy each
BridgeSigs == {"s1", "s2"}

\* a buy of sol_in lamports that landed when the wallet held pre_tok tokens
\* and brought t more
LandedBuy(pre_tok, t, sol_in) ==
    [NewTx("BUY", 0) EXCEPT !.st = "landed", !.tok_listed = TRUE, !.pre_sol = sol_in,
                            !.pre_tok = pre_tok, !.post_tok = pre_tok + t]

\* telethon_listener.py:309-322: the worker's confirm loop ended PENDING, the
\* status of its transaction seen and the receipt never served
StalledWorker(sig, k) ==
    CallReturn([NewWorker(sig, "bridge", k, "BUY") EXCEPT
                   !.calls = Calls("bridge") - 1,
                   !.w = [tx |-> "none", seen |-> TRUE, attempts |-> BridgeRetries]],
               "PENDING", "", "RECEIPT_PENDING")

\* both buys have landed, the wallet holds what they brought on top of what
\* the ledger tracks (nothing, or one earlier BUY), both intents are PENDING
\* and both workers enter the fallback
InitBridge2 ==
    \E k \in Pairs, t1 \in 1..MaxTok, t2 \in 1..MaxTok,
       b \in {[positions |-> <<>>, trades |-> <<>>],
              WithOpen([positions |-> <<>>, trades |-> <<>>], MonOrder[1], 1, 1)} :
        LET held == RowOrDefault(b.positions, k).token_balance
        IN /\ positions = b.positions
           /\ trades = b.trades
           /\ onchain_bal = held + t1 + t2
           /\ chain = [sig \in BridgeSigs |->
                          IF sig = "s1" THEN LandedBuy(held, t1, 1)
                          ELSE LandedBuy(held + t1, t2, 1)]
           /\ pending_trades =
                 EnqueuePendingTrade(
                     EnqueuePendingTrade(<<>>, k, "BUY", "s1", None, Some(1)),
                     k, "BUY", "s2", None, Some(1))
           /\ wk = [sig \in BridgeSigs |-> StalledWorker(sig, k)]
           /\ sw = SwIdle(0)
           /\ led = LedInit
           /\ ap = ApInit
           /\ mon = MonIdle(0)

NextBridge2 ==
    \/ \E sig \in BridgeSigs, bal_resp \in BalanceResponses : WkFallbackBal(sig, bal_resp)
    \/ \E sig \in BridgeSigs : WkFallbackPos(sig)
    \/ \E sig \in BridgeSigs : WkApplyRead(sig)
    \/ \E sig \in BridgeSigs : WkApplyWrite(sig)
    \/ \E sig \in BridgeSigs : WkResolve(sig)

SpecBridge2 == InitBridge2 /\ [][NextBridge2]_vars

----------------------------------------------------------------------------
(* The bridge over several signals: telethon_listener.run_listen_all.handler *)

\* signals routed to the subscriber in one behaviour
MaxSignals == 3

\* the mints the channel's messages may name
SignalPairs == {MonOrder[i] : i \in 1..Len(MonOrder)}

\* db.py:84-104: the subscriber's settings row as far as the bridge could
\* use it, and whether a wallet is stored; signals counts the signals routed
BridgeUser(auto_buy_enabled, duplicate_mint_block, wallet) ==
    [via |-> "bridge", signals |-> 0, auto_buy_enabled |-> auto_buy_enabled,
     duplicate_mint_block |-> duplicate_mint_block, wallet |-> wallet,
     last |-> "none"]

\* telethon_listener.py:271-293, 385-386: a message names mint k[2]; the
\* handler records the signal and starts _auto_buy_sync for the subscriber,
\* which skips, fails in send_buy_tx (the exception is caught and reported,
\* 367-377), or submits the buy and enqueues its intent.  Neither the
\* duplicate_mint_block setting nor the auto_mint_history table is read.
BrSignal(k, chan, sol_in, ok) ==
    /\ led.signals < MaxSignals
    /\ Cardinality(DOMAIN chain) < Len(SweepSigOrder)
    /\ LET sig == SweepSigOrder[Cardinality(DOMAIN chain) + 1]
       IN IF BridgeSkips(EffectiveSetting(led.auto_buy_enabled, chan), led.wallet)
          THEN /\ led' = [led EXCEPT !.signals = @ + 1, !.last = "skipped"]
               /\ UNCHANGED <<chain, pending_trades, wk>>
          ELSE IF ~ok
          THEN /\ led' = [led EXCEPT !.signals = @ + 1, !.last = "failed"]
               /\ UNCHANGED <<chain, pending_trades, wk>>
          ELSE /\ led' = [led EXCEPT !.signals = @ + 1, !.last = "submitted"]
               /\ chain' = Extend(chain, sig, NewTx("BUY", 0))
               /\ pending_trades' = EnqueuePendingTrade(pending_trades, k, "BUY", sig,
                                                        None, Some(sol_in))
               /\ wk' = Extend(wk, sig, NewWorker(sig, "bridge", k, "BUY"))
    /\ UNCHANGED <<positions, trades, onchain_bal, sw, ap, mon>>

\* the listener starts on an empty database for a subscriber with any
\* settings
InitSignals ==
    /\ positions = <<>>
    /\ trades = <<>>
    /\ pending_trades = <<>>
    /\ chain = <<>>
    /\ onchain_bal = 0
    /\ wk = <<>>
    /\ sw = SwIdle(0)
    /\ \E a \in {0, 1}, d \in {0, 1}, w \in BOOLEAN : led = BridgeUser(a, d, w)
    /\ ap = ApInit
    /\ mon = MonIdle(0)

NextSignals ==
    \E k \in SignalPairs, chan \in {None, Some(0), Some(1)}, sol_in \in 1..MaxSol,
       ok \in BOOLEAN : BrSignal(k, chan, sol_in, ok)

SpecSignals == InitSignals /\ [][NextSignals]_vars

----------------------------------------------------------------------------
(* Claims about the position ledger, checked under SpecLedger *)

RECURSIVE SumTok(_, _, _)
SumTok(log, k, side) ==
    IF log = <<>> THEN 0
    ELSE (IF Head(log).user = k[1] /\ Head(log).mint = k[2] /\ Head(log).side = side
          THEN Head(log).token_amount ELSE 0) + SumTok(Tail(log), k, side)

RECURSIVE SumSol(_, _, _)
SumSol(log, k, side) ==
    IF log = <<>> THEN 0
    ELSE (IF Head(log).user = k[1] /\ Head(log).mint = k[2] /\ Head(log).side = side
          THEN Head(log).sol_amount ELSE 0) + SumSol(Tail(log), k, side)

\* C9: in every reachable state each Position has token balance >= 0 and
\* an average entry cost of 0 whenever its balance is 0.
C9_BalanceAndCostInvariant ==
    \A k \in DOMAIN positions :
        /\ positions[k].token_balance >= 0
        /\ positions[k].token_balance = 0 => positions[k].avg_entry_sol = Zero

\* Only BUY trades have been applied to the pair and its balance was never
\* overwritten by reconcile_balance
OnlyBuys(k) ==
    /\ led.nrec = 0
    /\ \A i \in 1..Len(trades) :
          (trades[i].user = k[1] /\ trades[i].mint = k[2]) => trades[i].side = "BUY"

\* C10: after every BUY of a sequence of BUYs applied to a fresh position,
\* avg_entry_cost is the cumulative SOL spent divided by the cumulative
\* tokens bought, and the balance is the cumulative tokens bought.
C10_BuyAverageIsCumulative ==
    \A k \in DOMAIN positions :
        OnlyBuys(k) =>
            /\ positions[k].token_balance = SumTok(trades, k, "BUY")
            /\ positions[k].avg_entry_sol
                 = Frac(SumSol(trades, k, "BUY"), SumTok(trades, k, "BUY"))

\* three buys at different prices have been applied to a fresh position
C10_Witness ==
    /\ Len(trades) = 3
    /\ OnlyBuys(<<"u1", "m1">>)
    /\ trades[1].price_sol_per_token # trades[2].price_sol_per_token
    /\ trades[2].price_sol_per_token # trades[3].price_sol_per_token

\* the direct ledger caller has just returned from apply_trade(side, ...)
LedgerApplied(side) == led'.ops = led.ops + 1 /\ led'.op = side

\* the P&L one sell realizes against the row it was applied to
SellPnl(row, token_amount, sol_amount) ==
    RSub(FromInt(sol_amount), RMulInt(token_amount, row.avg_entry_sol))

\* C11: an applied SELL that leaves the balance above epsilon keeps
\* avg_entry_sol, lowers the balance by the tokens sold and adds exactly
\* proceeds - tokens_sold * avg_entry_sol to realized_pnl_sol (so the
\* increments of several sells add up).
C11_PartialSellKeepsAverage ==
    [][ (LedgerApplied("SELL") /\ led'.err = ""
            /\ positions[led'.k].token_balance - led'.tok > epsilon)
        => LET old == positions[led'.k]
               new == positions'[led'.k]
           IN /\ new.avg_entry_sol = old.avg_entry_sol
              /\ new.token_balance = old.token_balance - led'.tok
              /\ new.realized_pnl_sol
                    = RAdd(old.realized_pnl_sol, SellPnl(old, led'.tok, led'.sol))
              /\ new.open = 1 ]_vars

\* a sell at a price other than the entry cost has left the position open
C11_Witness ==
    /\ led.op = "SELL"
    /\ led.err = ""
    /\ positions[led.k].token_balance > epsilon
    /\ positions[led.k].realized_pnl_sol # Zero
    /\ positions[led.k].avg_entry_sol # Zero

\* C12: a SELL of positive amounts for more tokens than the tracked balance
\* fails with "Cannot sell more than current token balance", and a SELL on a
\* position with balance 0 or without a row fails with "No open position to
\* sell"; either way no Position row changes and no Trade row is appended.
C12_OversizedSellRejected ==
    [][ (LedgerApplied("SELL") /\ led'.tok > 0 /\ led'.sol > 0)
        => LET bal == RowOrDefault(positions, led'.k).token_balance
           IN /\ bal <= 0
                 => /\ led'.err = "No open position to sell"
                    /\ positions' = positions
                    /\ trades' = trades
              /\ (bal > 0 /\ led'.tok > bal)
                 => /\ led'.err = "Cannot sell more than current token balance"
                    /\ positions' = positions
                    /\ trades' = trades ]_vars

\* a sell for more than the balance of an open position was rejected
C12_Witness ==
    /\ led.op = "SELL"
    /\ led.err = "Cannot sell more than current token balance"
    /\ led.k \in DOMAIN positions
    /\ led.tok > positions[led.k].token_balance
    /\ positions[led.k].token_balance > 0

\* C13: an applied SELL that brings the balance to within epsilon of 0
\* leaves balance 0, avg_entry_sol 0 and open 0, and still adds proceeds -
\* tokens_sold * (the entry cost before the sell) to realized_pnl_sol.
C13_ClosingSellSnapsToZero ==
    [][ (LedgerApplied("SELL") /\ led'.err = ""
            /\ positions[led'.k].token_balance - led'.tok <= epsilon)
        => LET old == positions[led'.k]
               new == positions'[led'.k]
           IN /\ new.token_balance = 0
              /\ new.avg_entry_sol = Zero
              /\ new.open = 0
              /\ new.realized_pnl_sol
                    = RAdd(old.realized_pnl_sol, SellPnl(old, led'.tok, led'.sol)) ]_vars

\* a sell that left a residue of exactly epsilon has closed the position
C13_Witness ==
    /\ led.op = "SELL"
    /\ led.err = ""
    /\ led.nrec = 0
    /\ SumTok(trades, led.k, "BUY") - SumTok(trades, led.k, "SELL") = epsilon
    /\ positions[led.k].token_balance = 0
    /\ positions[led.k].open = 0
    /\ positions[led.k].realized_pnl_sol # Zero

\* C16: apply_trade with token_amount <= 0 or sol_amount <= 0, or with a
\* side other than BUY and SELL, raises an error and changes neither a
\* Position row nor the Trade log.
C16_InvalidArgumentsRejected ==
    [][ (led'.ops = led.ops + 1 /\ led'.op # "RECONCILE"
            /\ (led'.tok <= 0 \/ led'.sol <= 0 \/ led'.op \notin Sides))
        => /\ led'.err # ""
           /\ positions' = positions
           /\ trades' = trades ]_vars

\* a call with a side that is neither BUY nor SELL was rejected on a
\* position it could have sold from
C16_Witness ==
    /\ led.op = "HOLD"
    /\ led.err = "side must be BUY or SELL"
    /\ led.tok > 0
    /\ led.sol > 0
    /\ led.k \in DOMAIN positions
    /\ positions[led.k].token_balance >= led.tok

----------------------------------------------------------------------------
(* Claims about concurrent apply_trade calls, checked under SpecApply2 *)

\* the positions table after the call x and then the call y, one after the other
SerialPositions(base, x, y) ==
    LET r1 == ApplyTradeOn(base, <<>>, x.k, x.side, x.token_amount, x.sol_amount, "")
    IN ApplyTradeOn(r1.positions, r1.trades, y.k, y.side, y.token_amount,
                    y.sol_amount, "").positions

\* C4: two concurrent apply_trade calls on one (user, asset) pair leave the
\* Position as applying the two trades in some serial order would (no lost
\* update).
C4_ConcurrentApplySerializable ==
    (DOMAIN ap.calls = Callers /\ \A c \in Callers : ap.calls[c].pc = "done")
        => \/ positions = SerialPositions(ap.base, ap.calls["a"], ap.calls["b"])
           \/ positions = SerialPositions(ap.base, ap.calls["b"], ap.calls["a"])


----------------------------------------------------------------------------
(* Claims about the pending-intent table, checked under SpecIntents *)

\* C17: enqueue is an upsert keyed by the signature: after an enqueue the
\* signature has its one row, holding the amounts just requested; an
\* existing row keeps its id, status, error and actual amounts, a new row is
\* PENDING without actual amounts, every other row is untouched and no two
\* rows share an id.
C17_EnqueueIsIdempotentUpsert ==
    [][ (led'.ops = led.ops + 1 /\ led'.op = "ENQUEUE")
        => LET x == led'.sig
               new == pending_trades'[x]
           IN /\ DOMAIN pending_trades' = DOMAIN pending_trades \cup {x}
              /\ new.requested_token_amount = led'.requested_token_amount
              /\ new.requested_sol_amount = led'.requested_sol_amount
              /\ x \in DOMAIN pending_trades
                 => new = [pending_trades[x] EXCEPT
                              !.requested_token_amount = led'.requested_token_amount,
                              !.requested_sol_amount = led'.requested_sol_amount]
              /\ x \notin DOMAIN pending_trades
                 => /\ new.status = "PENDING"
                    /\ new.actual_token_amount = None
                    /\ new.actual_sol_amount = None
              /\ \A y \in DOMAIN pending_trades \ {x} :
                    pending_trades'[y] = pending_trades[y]
              /\ \A y, z \in DOMAIN pending_trades' :
                    y # z => pending_trades'[y].id # pending_trades'[z].id ]_vars

\* a signature resolved SUCCESS was enqueued again
C17_Witness ==
    /\ led.op = "ENQUEUE"
    /\ pending_trades[led.sig].status = "SUCCESS"
    /\ pending_trades[led.sig].actual_token_amount # None
    /\ pending_trades[led.sig].requested_sol_amount = led.requested_sol_amount
    /\ pending_trades[led.sig].id = 1

----------------------------------------------------------------------------
(* Claims about submission, checked under SpecSubmit *)

\* C18: submit_buy with the stored auto-buy policy off and no override
\* fails with "Auto-buy is disabled for this user" and submits no
\* transaction and creates no intent; with an enabling override it never
\* fails so, whatever the stored policy.
C18_AutoBuyGate ==
    (led # LedInit /\ led.fn = "buy")
    => /\ (led.stored = 0 /\ led.override = None)
          => /\ led.pc = "done"
             /\ led.err = AutoBuyDisabled
             /\ chain = <<>>
             /\ pending_trades = <<>>
       /\ led.override = Some(TRUE) => led.err # AutoBuyDisabled

\* a buy was refused because the stored policy is off
C18_Witness ==
    /\ led # LedInit
    /\ led.fn = "buy"
    /\ led.stored = 0
    /\ led.override = None
    /\ led.err = AutoBuyDisabled

\* C29: for a signal and a subscriber whose effective auto-buy setting
\* (the channel's override, else the stored value) is off, or who has no
\* wallet, the bridge ends without a transaction and without an intent.
C29_BridgeSkipsDisabledOrWalletless ==
    (led # LedInit /\ led.via = "bridge"
        /\ \/ led.chan = Some(0)
           \/ led.chan = None /\ led.stored = 0
           \/ ~led.wallet)
    => /\ led.pc = "done"
       /\ led.sig = None
       /\ chain = <<>>
       /\ pending_trades = <<>>

\* the bridge skipped a subscriber whose stored setting is on and whose
\* channel override turns auto-buy off
C29_Witness ==
    /\ led # LedInit
    /\ led.via = "bridge"
    /\ led.stored = 1
    /\ led.chan = Some(0)
    /\ led.wallet
    /\ led.pc = "done"
    /\ chain = <<>>

\* C19: when submit_buy has submitted a transaction and ended, an intent for
\* its signature with the requested SOL amount exists, whether the decimals
\* lookup answered, answered nothing or raised.
C19_SubmittedBuyHasIntent ==
    (led # LedInit /\ led.fn = "buy" /\ led.pc = "done" /\ led.sig # None)
    => /\ led.sig[1] \in DOMAIN pending_trades
       /\ pending_trades[led.sig[1]].requested_sol_amount = Some(led.sol_in)

\* C20: submit_sell fails with an invalid-amount error when the decimals
\* lookup answers nothing or the amount is below one raw unit, and whenever
\* it fails before sending, no transaction is submitted and no intent
\* enqueued; when it returns, exactly one transaction was submitted and one
\* intent enqueued for it, PENDING, with the requested tokens and 0 SOL.
C20_SubmitSellValidates ==
    (led # LedInit /\ led.fn = "sell")
    => /\ (~led.lookup_raised /\ led.decimals = None)
          => /\ led.pc = "done"
             /\ led.err = "Could not determine mint decimals for sell sizing"
       /\ (led.decimals # None /\ led.tokens_ui < Pow10(9 - led.decimals[1]))
          => /\ led.pc = "done"
             /\ led.err = "tokens_to_sell_raw computed as 0"
       /\ (led.pc = "done" /\ led.err # "")
          => /\ chain = <<>>
             /\ pending_trades = <<>>
       /\ (led.pc = "done" /\ led.err = "")
          => /\ DOMAIN chain = {led.sig[1]}
             /\ DOMAIN pending_trades = {led.sig[1]}
             /\ pending_trades[led.sig[1]].side = "SELL"
             /\ pending_trades[led.sig[1]].status = "PENDING"
             /\ pending_trades[led.sig[1]].requested_token_amount = Some(led.tokens_ui)
             /\ pending_trades[led.sig[1]].requested_sol_amount = Some(0)

\* a sell below one raw unit of a 6-decimals mint was refused
C20_Witness ==
    /\ led # LedInit
    /\ led.fn = "sell"
    /\ led.decimals = Some(6)
    /\ led.tokens_ui = 999
    /\ led.err = "tokens_to_sell_raw computed as 0"

----------------------------------------------------------------------------
(* Claims about apply_trade's transaction, checked under SpecTxn *)

\* the calls that returned without an error
AppliedCalls == {c \in DOMAIN ap.calls : ap.calls[c].pc = "done" /\ ap.calls[c].err = ""}

\* C14: apply_trade's Trade insert and Position upsert take effect together
\* or not at all: in every state, also after a failure between the two
\* writes, the committed Trade log holds exactly one row per call that
\* returned without error, and the Position rows differ from the initial
\* ones exactly when some call did.
C14_TradeAndPositionTogether ==
    /\ Len(trades) = Cardinality(DOMAIN ap.base) + Cardinality(AppliedCalls)
    /\ (AppliedCalls = {}) <=> (positions = ap.base)

\* a call failed between its two writes: its INSERT INTO positions hit the
\* row the other call had committed since its SELECT
C14_Witness ==
    \E c \in DOMAIN ap.calls :
        /\ ap.calls[c].pc = "done"
        /\ ap.calls[c].err = "UNIQUE constraint failed: positions.user_id, positions.mint"
        /\ AppliedCalls # {}

\* ---------------------------------------------------------------------
\* Claims about reconciliation, checked under Spec
\* ---------------------------------------------------------------------

\* the Trade rows recorded for a signature
TradesOf(sig) == {i \in 1..Len(trades) : trades[i].tx_sig = sig}

\* a confirm_trade call of this caller has returned
Returned(sig) == sig \in DOMAIN wk /\ wk[sig].calls > 0

\* C1: when every attempt of the wait ended without a receipt and no
\* confirmed status was seen (the wait ran out with "Transaction not found
\* on-chain"), confirm_trade reports PENDING and the intent is not marked
\* FAILED by that outcome.
C1_NoReceiptStaysPending ==
    \A sig \in DOMAIN wk :
        (Returned(sig) /\ wk[sig].w.tx # "receipt" /\ ~wk[sig].w.seen
            /\ wk[sig].note = NotFound)
        => /\ wk[sig].res = "PENDING"
           /\ pending_trades[sig].error # NotFound

\* C2: a reconciliation that begins when the signature is already settled
\* (intent SUCCESS, trade applied) changes no Position and appends no Trade.
C2_SettledReconcileIsNoOp ==
    [][ /\ \A sig \in DOMAIN wk :
              (wk[sig].settled /\ wk'[sig] # wk[sig])
              => (positions' = positions /\ trades' = trades)
        /\ (sw.pc # "idle" /\ sw' # sw /\ sw.rows[sw.i] \in sw.settled)
              => (positions' = positions /\ trades' = trades) ]_vars

\* C3: when two reconcilers work on the same signature at the same time
\* (neither began after it was settled) and both see a successful receipt,
\* the trade is recorded once: a reconciler that began before the signature
\* was settled appends a Trade row only if none exists for the signature.
C3_ConcurrentReconcileAppliesOnce ==
    [][ \A sig \in DOMAIN pending_trades :
          ( /\ Cardinality(TradesOf(sig))' > Cardinality(TradesOf(sig))
            /\ \/ (sig \in DOMAIN wk /\ wk'[sig] # wk[sig] /\ ~wk[sig].settled)
               \/ (sw.pc # "idle" /\ sw' # sw /\ sw.rows[sw.i] = sig
                     /\ sig \notin sw.settled) )
          => TradesOf(sig) = {} ]_vars

\* C5: when the receipt was absent on every attempt of a wait but a status
\* lookup reported the signature confirmed without error, the wait used all
\* its attempts, confirm_trade returned PENDING with the RECEIPT_PENDING
\* note and no error, and the intent is not FAILED.
C5_ConfirmedWithoutReceiptIsPending ==
    \A sig \in DOMAIN wk :
        (Returned(sig) /\ wk[sig].w.tx # "receipt" /\ wk[sig].w.seen)
        => /\ wk[sig].res = "PENDING"
           /\ wk[sig].note = "RECEIPT_PENDING"
           /\ wk[sig].res_error = ""
           /\ wk[sig].w.attempts = Retries(wk[sig].kind)
           /\ pending_trades[sig].status # "FAILED"

\* a wait ran out of attempts after a confirmed status and no receipt
C5_Witness ==
    \E sig \in DOMAIN wk :
        /\ Returned(sig)
        /\ wk[sig].w.tx # "receipt"
        /\ wk[sig].w.seen
        /\ wk[sig].note = "RECEIPT_PENDING"

\* C6: when the fetched receipt carries an error, confirm_trade returns
\* FAILED with the raw error text, the intent is FAILED with that error, and
\* no trade is recorded for the signature.
C6_ErrorReceiptFailsAtOnce ==
    \A sig \in DOMAIN wk :
        (Returned(sig) /\ wk[sig].w.tx = "receipt" /\ chain[sig].err # "")
        => /\ wk[sig].res = "FAILED"
           /\ wk[sig].res_error = chain[sig].err
           /\ wk[sig].pc = "done"
           /\ pending_trades[sig].status = "FAILED"
           /\ pending_trades[sig].error = chain[sig].err
           /\ TradesOf(sig) = {}

\* a caller fetched a receipt that carries an error
C6_Witness ==
    \E sig \in DOMAIN wk :
        /\ Returned(sig)
        /\ wk[sig].w.tx = "receipt"
        /\ chain[sig].err # ""
        /\ wk[sig].res = "FAILED"

\* C7: when confirm_trade has returned SUCCESS, the trade is on the ledger
\* and the intent is SUCCESS with the actual amounts recorded.
C7_SuccessMeansApplied ==
    \A sig \in DOMAIN wk :
        (Returned(sig) /\ wk[sig].res = "SUCCESS")
        => /\ TradesOf(sig) # {}
           /\ pending_trades[sig].status = "SUCCESS"
           /\ pending_trades[sig].actual_token_amount # None
           /\ pending_trades[sig].actual_sol_amount # None

\* C8: the status of an intent changes at most once: from SUCCESS or FAILED
\* it never changes again.
C8_StatusChangesAtMostOnce ==
    [][ \A sig \in DOMAIN pending_trades :
          pending_trades[sig].status \in {"SUCCESS", "FAILED"}
          => pending_trades'[sig].status = pending_trades[sig].status ]_vars

\* a caller is at a call of reconcile_position_balance and takes the step:
\* confirm_trade after a direct SUCCESS, or the bridge's fallback when the
\* balance difference is not applied as a BUY
ReconcileCallStep(sig) ==
    \/ wk[sig].pc = "recon" /\ wk'[sig].pc # "recon"
    \/ wk[sig].pc = "fb_pos" /\ wk'[sig].pc = "done"

\* the row differs from the old one in token_balance at most
OnlyBalanceDiffers(old, new) == new = [old EXCEPT !.token_balance = new.token_balance]

WaitRanOut(sig) ==
    /\ Returned(sig)
    /\ wk[sig].w.attempts = Retries(wk[sig].kind)
    /\ wk[sig].w.tx # "receipt"
    /\ chain[sig].err = ""

\* C27: every bounded polling loop makes at most its fixed number of
\* attempts (the receipt wait its retries, the caller's confirm loop its
\* calls) and then ends; a wait that used all its attempts yields PENDING.
C27_BoundedPollingEndsPending ==
    \A sig \in DOMAIN wk :
        /\ wk[sig].attempt < Retries(wk[sig].kind)
        /\ wk[sig].w.attempts <= Retries(wk[sig].kind)
        /\ wk[sig].calls <= Calls(wk[sig].kind)
        /\ WaitRanOut(sig) => wk[sig].res = "PENDING"

\* the missing-deltas branch of confirm_trade is about to compare the
\* on-chain balance with the tracked balance, and the comparison yields no
\* positive delta (no balance was reported, or the difference is not positive)
NoPositiveDelta(sig) ==
    /\ wk[sig].pc = "md_pos"
    /\ LET me == wk[sig]
           prev_bal == RowOrDefault(positions, me.k).token_balance
       IN \/ me.bal = None
          \/ me.side = "BUY" /\ me.bal[1] - prev_bal <= 0
          \/ me.side = "SELL" /\ prev_bal - me.bal[1] <= 0

\* C28: when the receipt has no error and no token delta and the balance
\* comparison yields no positive delta, confirm_trade returns PENDING with
\* the missing-deltas note, applies no trade and leaves the intent PENDING.
C28_MissingDeltasStaysPending ==
    [][ \A sig \in DOMAIN wk :
          (NoPositiveDelta(sig) /\ wk'[sig] # wk[sig])
          => /\ wk'[sig].pc # "apply_r"
             /\ wk'[sig].calls = wk[sig].calls + 1
             /\ wk'[sig].res = "PENDING"
             /\ wk'[sig].note = "MISSING_DELTAS" ]_vars

\* ---------------------------------------------------------------------
\* Claims about auto_buy and auto_sell, checked under SpecAuto
\* ---------------------------------------------------------------------

EvaluatedWithPrice ==
    /\ mon.last.why # ""
    /\ mon.last.open = 1
    /\ mon.last.enabled = 1
    /\ mon.last.entry[1] > 0
    /\ mon.last.price_resp = "ok"

\* the monitor is about to sell the whole balance of the row it evaluated
SellsFullBalance ==
    /\ mon.pc = "sell"
    /\ mon.tokens = mon.rows[mon.i].pos.token_balance

\* C22: for an open position with TP/SL enabled, entry cost > 0, a price
\* and a take_profit_pct > 0, the monitor goes on to sell the full balance
\* for take-profit when price >= entry * (1 + take_profit_pct / 100), and
\* take-profit does not fire below that; a take_profit_pct of 0 (not
\* configured) never fires.
C22_TakeProfitAtThreshold ==
    EvaluatedWithPrice
    => LET e == mon.last.entry
           p == mon.last.price
           tp == mon.last.tp
       IN IF tp > 0 /\ p[1] * 100 * e[2] >= e[1] * (100 + tp) * p[2]
          THEN mon.last.why = "tp" /\ SellsFullBalance
          ELSE mon.last.why # "tp"

\* take-profit 30, entry 1, price 1.30: the monitor sells
C22_Witness ==
    /\ EvaluatedWithPrice
    /\ mon.last.tp = 30
    /\ mon.last.entry = <<1, 1>>
    /\ mon.last.price = <<13, 10>>
    /\ mon.last.why = "tp"
    /\ SellsFullBalance

\* C23: under the same conditions, when take-profit did not fire and
\* stop_loss_pct > 0, the monitor goes on to sell the full balance for
\* stop-loss when price <= entry * (1 - stop_loss_pct / 100), and sells
\* nothing above that; a stop_loss_pct of 0 (not configured) never fires.
C23_StopLossAtThreshold ==
    (EvaluatedWithPrice /\ mon.last.why # "tp")
    => LET e == mon.last.entry
           p == mon.last.price
           sl == mon.last.sl
       IN IF sl > 0 /\ p[1] * 100 * e[2] <= e[1] * (100 - sl) * p[2]
          THEN mon.last.why = "sl" /\ SellsFullBalance
          ELSE mon.last.why = "hold" /\ mon.pc = "evaluated"

\* stop-loss 20, entry 1, price 0.79: the monitor sells
C23_Witness ==
    /\ EvaluatedWithPrice
    /\ mon.last.sl = 20
    /\ mon.last.entry = <<1, 1>>
    /\ mon.last.price = <<79, 100>>
    /\ mon.last.why = "sl"
    /\ SellsFullBalance

\* C24: a failure while evaluating a position (the price lookup, the sell
\* submission, TxFailed or TxPending of the auto-sell) never ends the
\* monitor loop.
C24_MonitorSurvivesFailures ==
    mon.pc # "aborted"

\* C25: when the price lookup gives no price (it returns None, or its RPC
\* call fails), the position is skipped: the evaluation ends without a sell
\* and without an error.
C25_UnavailablePriceIsSkipped ==
    mon.last.why \in {"no_price", "error"}
    => /\ mon.pc = "evaluated"
       /\ mon.exc = ""
       /\ mon.tokens = 0

\* C30: the monitor goes on to no sell for a row whose owner has TP/SL
\* disabled, whose entry cost is <= 0, or that is not open, whatever the
\* price and the thresholds.
C30_NoSellWithoutSwitchCostOrOpen ==
    (mon.last.why # ""
        /\ (mon.last.enabled = 0 \/ mon.last.entry[1] <= 0 \/ mon.last.open = 0))
    => /\ mon.pc = "evaluated"
       /\ mon.last.why \in {"closed", "disabled", "no_cost"}
       /\ mon.tokens = 0

\* an open position with TP/SL disabled was evaluated at a price at the
\* take-profit threshold
C30_Witness ==
    /\ mon.last.why = "disabled"
    /\ mon.last.open = 1
    /\ mon.last.entry = <<1, 1>>
    /\ mon.last.tp = 30
    /\ mon.last.price_resp = "ok"
    /\ mon.last.price = <<13, 10>>
    /\ mon.pc = "evaluated"

\* ---------------------------------------------------------------------
\* Claims about the repeated sweep, checked under SpecSweep
\* ---------------------------------------------------------------------

\* the intent is PENDING and its receipt is served without error and with
\* both deltas
SettleableIntent(sig) ==
    /\ sig \in DOMAIN pending_trades
    /\ pending_trades[sig].status = "PENDING"
    /\ chain[sig].st = "receipt"
    /\ chain[sig].err = ""
    /\ chain[sig].tok_listed

\* C26: under repeated runs of the sweep every PENDING intent whose receipt
\* is available with both deltas eventually leaves PENDING, however many
\* older intents stay unresolved.
C26_SweepEventuallySettles ==
    \A sig \in SweepSigs :
        SettleableIntent(sig)
        ~> (sig \in DOMAIN pending_trades /\ pending_trades[sig].status # "PENDING")

\* ---------------------------------------------------------------------
\* More claims about the monitor, checked under SpecMonitor
\* ---------------------------------------------------------------------

\* the monitor is at a row of the tick it is running
AtRow(m) == m.pc \in {"eval", "evaluated", "sell", "confirm"}

\* C31: in one tick the monitor submits at most one auto-sell per position.
\* The rows of a tick are distinct positions; a sell is decided only by the
\* evaluation of the row at hand, by take-profit whenever take-profit
\* matches; and once a row was evaluated or sold the tick only moves on to
\* a later row, to the sleep, or ends with the loop.
C31_OneSellPerPositionPerTick ==
    /\ [](\A a, b \in 1..Len(mon.rows) : mon.rows[a].k = mon.rows[b].k => a = b)
    /\ [](mon.pc = "sell" =>
            /\ mon.last.why \in {"tp", "sl"}
            /\ (mon.last.why = "tp") = TpTriggers(mon.last.entry, mon.last.price, mon.last.tp))
    /\ [][/\ (mon.pc # "sell" /\ mon'.pc = "sell") =>
               (mon.pc = "eval" /\ mon'.i = mon.i /\ mon'.ticks = mon.ticks)
          /\ (mon.pc = "sell" /\ mon'.pc # "sell") => mon'.pc \in {"confirm", "aborted"}
          /\ (mon.pc \in {"evaluated", "confirm"} /\ mon' # mon /\ AtRow(mon')) =>
               (mon'.pc = "eval" /\ mon'.ticks = mon.ticks /\ mon'.i = mon.i + 1)
         ]_vars

\* a take-profit sell of the first row was confirmed and the tick went on
C31_Witness ==
    /\ \E sig \in DOMAIN wk : wk[sig].kind = "auto" /\ wk[sig].pc = "ended"
                              /\ wk[sig].exc.type = "return"
    /\ \E sig \in DOMAIN pending_trades : pending_trades[sig].side = "SELL"
    /\ mon.pc = "idle"
    /\ mon.ticks = 1

\* ---------------------------------------------------------------------
\* More claims about the position ledger, checked under SpecLedger
\* ---------------------------------------------------------------------

C33_PnlChangesOnSellsOnly ==
    [][\A k \in Pairs :
          LET old == RowOrDefault(positions, k)
              new == RowOrDefault(positions', k)
              applied == led'.ops = led.ops + 1 /\ led'.err = "" /\ led'.k = k
          IN /\ (applied /\ led'.op = "BUY") =>
                   /\ new.realized_pnl_sol = old.realized_pnl_sol
                   /\ new.total_sol_received = old.total_sol_received
                   /\ new.total_sol_spent = old.total_sol_spent + led'.sol
             /\ (applied /\ led'.op = "SELL") =>
                   /\ new.total_sol_spent = old.total_sol_spent
                   /\ new.total_sol_received = old.total_sol_received + led'.sol
             /\ new.realized_pnl_sol # old.realized_pnl_sol =>
                   (applied /\ led'.op = "SELL")
      ]_vars

\* a BUY has been applied to a position that had realized a gain or a loss
C33_Witness ==
    /\ led.op = "BUY"
    /\ led.err = ""
    /\ led.k \in DOMAIN positions
    /\ positions[led.k].realized_pnl_sol # Zero
    /\ positions[led.k].total_sol_received > 0

\* ---------------------------------------------------------------------
\* More claims about the sweep, checked under SpecSweep
\* ---------------------------------------------------------------------

\* getTransaction has no receipt of the signature to give, or the receipt
\* it gives carries no error and lacks a delta
AmbiguousReceipt(sig) ==
    \/ chain[sig].st # "receipt"
    \/ /\ chain[sig].err = ""
       /\ LET deltas == ExtractTxDeltas(chain[sig])
          IN deltas.sol_delta_lamports = None \/ deltas.token_delta_ui = None

C35_ClosedPnlIsReceivedMinusSpent ==
    \A k \in DOMAIN positions :
        (/\ positions[k].token_balance = 0
         /\ SumTok(trades, k, "BUY") = SumTok(trades, k, "SELL"))
        => positions[k].realized_pnl_sol
             = FromInt(positions[k].total_sol_received - positions[k].total_sol_spent)

\* C37: within one run of the sweep a failure on one intent does not stop
\* the run: while selected rows remain after the row at hand, no step of
\* the sweep ends the run.
C37_SweepSurvivesFailures ==
    [][(sw.pc # "idle" /\ sw' # sw /\ sw.i < Len(sw.rows)) => sw'.pc # "idle"]_vars

\* ---------------------------------------------------------------------
\* More claims about reconciliation, checked under Spec
\* ---------------------------------------------------------------------

\* a run of the sweep that started now would select the signature
SweepWouldSelect(sig) ==
    \E i \in 1..Len(ListPendingTrades(pending_trades, "PENDING", SweepLimit)) :
        ListPendingTrades(pending_trades, "PENDING", SweepLimit)[i] = sig

\* C36: applying a confirmed trade and resolving its intent take effect
\* together: in no reachable state does a Trade row of a signature exist
\* while the signature's intent is still PENDING and would be selected, and
\* applied again, by a later reconciliation.
C36_AppliedMeansResolved ==
    \A sig \in DOMAIN pending_trades :
        TradesOf(sig) # {} => ~SweepWouldSelect(sig)

\* ---------------------------------------------------------------------
\* Claims about two bridge workers, checked under SpecBridge2
\* ---------------------------------------------------------------------

\* the tokens the Trade rows of the two workers' signatures book
RECURSIVE FallbackTokens(_)
FallbackTokens(log) ==
    IF log = <<>> THEN 0
    ELSE (IF Head(log).tx_sig \in BridgeSigs THEN Head(log).token_amount ELSE 0)
         + FallbackTokens(Tail(log))

\* C38: when two bridge workers with a pending buy each of the same user
\* and mint reach the fallback, the amounts they apply add up to no more
\* than the on-chain balance they observed, and the tracked balance does
\* not exceed it, under every interleaving.
C38_FallbackNeverDoubleCounts ==
    /\ FallbackTokens(trades) <= onchain_bal
    /\ \A k \in DOMAIN positions : positions[k].token_balance <= onchain_bal

\* ---------------------------------------------------------------------
\* Claims about the bridge over several signals, checked under SpecSignals
\* ---------------------------------------------------------------------

\* the buys the bridge has submitted for the pair
AutoBuysOf(k) ==
    {sig \in DOMAIN pending_trades :
        /\ pending_trades[sig].user = k[1]
        /\ pending_trades[sig].mint = k[2]
        /\ pending_trades[sig].side = "BUY"}

\* C39: with the subscriber's duplicate_mint_block set the bridge submits
\* at most one auto-buy per user and mint.
C39_DuplicateMintBlocked ==
    led.duplicate_mint_block = 1 =>
        \A k \in SignalPairs : Cardinality(AutoBuysOf(k)) <= 1

====
